---- MODULE Spec2Model ----
(***************************************************************************)
(* A model of the handle/resource-context registry of go-tpm2              *)
(* (resources.go), of the serialized context blob and its restore path,    *)
(* and of the command dispatch that writes handles to the transport.       *)
(*                                                                         *)
(* Representation choices                                                  *)
(*   - a byte is a number in 0..255, a byte string a sequence of bytes;    *)
(*   - a Handle (uint32) is the pair <<top byte, low 24 bits>>, because    *)
(*     transient handles (0x80......) do not fit TLC's integers;           *)
(*   - a 32-bit attribute field is the set of its bit numbers;             *)
(*   - a digest is modelled as a collision-free function of (algorithm,    *)
(*     data): the algorithm byte followed by the data.  Its length is not  *)
(*     the real digest length; lengths that the code compares with         *)
(*     HashAlgorithmId.Size() use HashSize below.                          *)
(***************************************************************************)
EXTENDS Integers, Sequences, FiniteSets, TLC

\* ------------------------------------------------------------------------
\* Bounds of the model
\* ------------------------------------------------------------------------

\* number of handleContext structures the heap of the registry model holds
MaxCtx == 2

\* the number of operations a client performs on one TPMContext
MaxOps == 4

\* number of sessionContext wrappers (WithAttrs and friends make new ones)
MaxSess == 2

\* ------------------------------------------------------------------------
\* Handles, handle types, names
\* ------------------------------------------------------------------------

HandleTypePCR == 0

HandleTypeNVIndex == 1

HandleTypeHMACSession == 2

HandleTypePolicySession == 3

HandleTypePermanent == 64

HandleTypeTransient == 128

HandleTypePersistent == 129

\* Handle.Type(): the top byte of the handle
HandleType(h) == h[1]

\* TPM_RH_UNASSIGNED, 0x40000008
HandleUnassigned == <<64, 8>>

\* TPM_RH_OWNER, 0x40000001
HandleOwner == <<64, 1>>

\* binary.BigEndian.PutUint32 of a handle
PutUint32(h) ==
    <<h[1], h[2] \div 65536, (h[2] \div 256) % 256, h[2] % 256>>

\* binary.BigEndian.Uint32 of four bytes, as a handle
Uint32(b) == <<b[1], b[2] * 65536 + b[3] * 256 + b[4]>>

\* Name.IsHandle(): the name is exactly a 4-byte handle
NameIsHandle(n) == Len(n) = 4

\* Name.Handle(): the handle a handle-name holds
NameHandle(n) == Uint32(n)

\* the name of a handle-named entity: make(Name, 4); PutUint32(name, handle)
HandleName(h) == PutUint32(h)

\* ------------------------------------------------------------------------
\* Algorithms
\* ------------------------------------------------------------------------

HashAlgorithmSHA1 == 4

HashAlgorithmSHA256 == 11

HashAlgorithmSHA384 == 12

HashAlgorithmSHA512 == 13

SymAlgorithmAES == 6

SymAlgorithmXOR == 10

SymAlgorithmNull == 16

SymAlgorithmSM4 == 19

SymAlgorithmCamellia == 38

SymModeCFB == 67

ObjectTypeKeyedHash == 8

SessionTypeHMAC == 0

SessionTypePolicy == 1

SessionTypeTrial == 3

policyHMACTypeMax == 2

\* HashAlgorithmId.Supported()
HashSupported(alg) ==
    alg \in {HashAlgorithmSHA1, HashAlgorithmSHA256, HashAlgorithmSHA384,
             HashAlgorithmSHA512}

\* HashAlgorithmId.Size(): the digest size in bytes
HashSize(alg) ==
    CASE alg = HashAlgorithmSHA1 -> 20
      [] alg = HashAlgorithmSHA256 -> 32
      [] alg = HashAlgorithmSHA384 -> 48
      [] alg = HashAlgorithmSHA512 -> 64
      [] OTHER -> 0

\* hash.Write(data); hash.Sum(nil): a collision-free digest
HashSum(alg, data) == <<alg>> \o data

\* ------------------------------------------------------------------------
\* Wire codec primitives (big-endian integers, sized buffers)
\* ------------------------------------------------------------------------

\* binary.Write of a uint8 / bool
MarshalU8(n) == <<n>>

\* binary.Write of a uint16
MarshalU16(n) == <<n \div 256, n % 256>>

MarshalBool(b) == IF b THEN <<1>> ELSE <<0>>

\* one byte of a 32-bit attribute field: k = 0 is the most significant byte
AttrByte(S, k) ==
    LET bit(i) == IF (8 * (3 - k) + i) \in S THEN 2 ^ i ELSE 0
    IN bit(0) + bit(1) + bit(2) + bit(3) + bit(4) + bit(5) + bit(6) + bit(7)

\* binary.Write of a uint32 attribute field
MarshalAttrs(S) == <<AttrByte(S, 0), AttrByte(S, 1), AttrByte(S, 2), AttrByte(S, 3)>>

\* marshalSlice of a sized buffer: a 16-bit size, uint16(len), then the bytes
MarshalSizedBuffer(b) == MarshalU16(Len(b) % 65536) \o b

\* the result of a failed read
ReadFail == [ok |-> FALSE, v |-> <<>>, rest |-> <<>>]

ReadOk(v, rest) == [ok |-> TRUE, v |-> v, rest |-> rest]

Drop(b, n) == SubSeq(b, n + 1, Len(b))

\* binary.Read of a uint8
UnmarshalU8(b) ==
    IF Len(b) < 1 THEN ReadFail ELSE ReadOk(b[1], Drop(b, 1))

\* binary.Read of a bool: any non-zero byte is true
UnmarshalBool(b) ==
    IF Len(b) < 1 THEN ReadFail ELSE ReadOk(b[1] # 0, Drop(b, 1))

\* binary.Read of a uint16
UnmarshalU16(b) ==
    IF Len(b) < 2 THEN ReadFail ELSE ReadOk(b[1] * 256 + b[2], Drop(b, 2))

\* binary.Read of a uint32
UnmarshalU32(b) ==
    IF Len(b) < 4 THEN ReadFail
    ELSE ReadOk(b[1] * 16777216 + b[2] * 65536 + b[3] * 256 + b[4], Drop(b, 4))

\* binary.Read of a uint32 that is a handle
UnmarshalHandle(b) ==
    IF Len(b) < 4 THEN ReadFail ELSE ReadOk(Uint32(SubSeq(b, 1, 4)), Drop(b, 4))

\* the bits set in byte k of a 32-bit attribute field
BitsOfByte(x, k) == {8 * (3 - k) + i : i \in {j \in 0..7 : (x \div (2 ^ j)) % 2 = 1}}

\* binary.Read of a uint32 attribute field
UnmarshalAttrs(b) ==
    IF Len(b) < 4 THEN ReadFail
    ELSE ReadOk(BitsOfByte(b[1], 0) \cup BitsOfByte(b[2], 1) \cup
                BitsOfByte(b[3], 2) \cup BitsOfByte(b[4], 3), Drop(b, 4))

\* unmarshalSlice of a sized buffer into a nil destination
UnmarshalSizedBuffer(b) ==
    LET l == UnmarshalU16(b)
    IN IF ~l.ok THEN ReadFail
       ELSE IF Len(l.rest) < l.v THEN ReadFail
       ELSE ReadOk(SubSeq(l.rest, 1, l.v), Drop(l.rest, l.v))

\* ------------------------------------------------------------------------
\* Public areas and their names
\* ------------------------------------------------------------------------

\* the keyed-hash scheme TPM_ALG_NULL
KeyedHashSchemeNull == 16

\* marshalStruct of a Public.  Only keyed-hash objects with the null scheme
\* are modelled: Type, NameAlg, Attrs, AuthPolicy, Params (the scheme) and
\* Unique (a digest).
MarshalPublic(p) ==
    MarshalU16(p.Type) \o MarshalU16(p.NameAlg) \o MarshalAttrs(p.Attrs) \o
    MarshalSizedBuffer(p.AuthPolicy) \o MarshalU16(p.Params) \o
    MarshalSizedBuffer(p.Unique)

\* marshalStruct of an NVPublic: Index, NameAlg, Attrs, AuthPolicy, Size
MarshalNVPublic(p) ==
    PutUint32(p.Index) \o MarshalU16(p.NameAlg) \o MarshalAttrs(p.Attrs) \o
    MarshalSizedBuffer(p.AuthPolicy) \o MarshalU16(p.Size)

\* Public.Name() and NVPublic.Name(): algId || digest(public area); an error
\* when the name algorithm is not a supported digest
ComputeName(nameAlg, encoded) ==
    IF ~HashSupported(nameAlg) THEN [ok |-> FALSE, name |-> <<>>]
    ELSE [ok |-> TRUE, name |-> MarshalU16(nameAlg) \o HashSum(nameAlg, encoded)]

PublicName(p) == ComputeName(p.NameAlg, MarshalPublic(p))

NVPublicName(p) == ComputeName(p.NameAlg, MarshalNVPublic(p))

\* Public.compareName / NVPublic.compareName
PublicCompareName(p, name) == PublicName(p).ok /\ PublicName(p).name = name

NVPublicCompareName(p, name) == NVPublicName(p).ok /\ NVPublicName(p).name = name

\* ------------------------------------------------------------------------
\* Session data
\* ------------------------------------------------------------------------

SymIsBlockCipher(alg) ==
    alg \in {SymAlgorithmAES, SymAlgorithmSM4, SymAlgorithmCamellia}

\* marshalStruct of a SymDef: Algorithm, then the KeyBits and Mode unions
\* selected by Algorithm (block ciphers: key bits and mode; XOR: the hash
\* algorithm; null: nothing; any other algorithm: invalid selector)
MarshalSymDef(s) ==
    IF SymIsBlockCipher(s.Algorithm)
    THEN [ok |-> TRUE, b |-> MarshalU16(s.Algorithm) \o MarshalU16(s.KeyBits) \o MarshalU16(s.Mode)]
    ELSE IF s.Algorithm = SymAlgorithmXOR
    THEN [ok |-> TRUE, b |-> MarshalU16(s.Algorithm) \o MarshalU16(s.KeyBits)]
    ELSE IF s.Algorithm = SymAlgorithmNull
    THEN [ok |-> TRUE, b |-> MarshalU16(s.Algorithm)]
    ELSE [ok |-> FALSE, b |-> <<>>]

\* the zero value of sessionContextData, which marshalPtr marshals for a
\* nil pointer; its Symmetric is the zero SymDef (Algorithm 0)
ZeroSessionData ==
    [IsAudit |-> FALSE, IsExclusive |-> FALSE, HashAlg |-> 0, SessionType |-> 0,
     PolicyHMACType |-> 0, IsBound |-> FALSE, BoundEntity |-> <<>>,
     SessionKey |-> <<>>, NonceCaller |-> <<>>, NonceTPM |-> <<>>,
     Symmetric |-> [Algorithm |-> 0, KeyBits |-> 0, Mode |-> 0]]

\* marshalStruct of a sessionContextData, field by field
MarshalSessionData(d) ==
    LET sym == MarshalSymDef(d.Symmetric)
    IN [ok |-> sym.ok,
        b |-> MarshalBool(d.IsAudit) \o MarshalBool(d.IsExclusive) \o
              MarshalU16(d.HashAlg) \o MarshalU8(d.SessionType) \o
              MarshalU8(d.PolicyHMACType) \o MarshalBool(d.IsBound) \o
              MarshalSizedBuffer(d.BoundEntity) \o MarshalSizedBuffer(d.SessionKey) \o
              MarshalSizedBuffer(d.NonceCaller) \o MarshalSizedBuffer(d.NonceTPM) \o
              sym.b]

\* ------------------------------------------------------------------------
\* handleContext: the host-side state of one TPM entity
\* ------------------------------------------------------------------------

handleContextTypeDummy == 0

handleContextTypePermanent == 1

handleContextTypeObject == 2

handleContextTypeNvIndex == 3

handleContextTypeSession == 4

\* a nil pointer (no context, no union payload)
Nil == [nil |-> TRUE]

\* the empty authorization value
NoAuth == <<>>

\* a faulty Select for which a Type it does not know selects no data
handleContextU_SelectUnknownAsNil(type) ==
    CASE type = handleContextTypeObject -> "Object"
      [] type = handleContextTypeNvIndex -> "NV"
      [] type = handleContextTypeSession -> "Session"
      [] OTHER -> "none"

\* handleContextU.Select: which member of the union the Type field selects;
\* "none" is mu.NilUnionValue, "invalid" is the nil return
handleContextU_Select(type) ==
    CASE type \in {handleContextTypeDummy, handleContextTypePermanent} -> "none"
      [] type = handleContextTypeObject -> "Object"
      [] type = handleContextTypeNvIndex -> "NV"
      [] type = handleContextTypeSession -> "Session"
      [] OTHER -> "invalid"

\* marshalUnion of the Data field of a handleContext; a nil member pointer
\* is marshalled as the zero value of its type (marshalPtr)
MarshalHandleContextU(h) ==
    LET sel == handleContextU_Select(h.Type)
    IN CASE sel = "none" -> [ok |-> TRUE, b |-> <<>>]
         [] sel = "Object" -> [ok |-> TRUE, b |-> MarshalPublic(h.Data)]
         [] sel = "NV" -> [ok |-> TRUE, b |-> MarshalNVPublic(h.Data)]
         [] sel = "Session" ->
              MarshalSessionData(IF h.Data = Nil THEN ZeroSessionData ELSE h.Data)
         [] OTHER -> [ok |-> FALSE, b |-> <<>>]

\* a faulty MarshalHandleContext that leaves the Data field out
MarshalHandleContextNoData(h) ==
    [ok |-> MarshalHandleContextU(h).ok,
     b |-> MarshalU8(h.Type) \o PutUint32(h.H) \o MarshalSizedBuffer(h.N)]

\* mu.MarshalToBytes(h) for h *handleContext: the fields Type, H, N, Data
MarshalHandleContext(h) ==
    LET u == MarshalHandleContextU(h)
    IN [ok |-> u.ok,
        b |-> MarshalU8(h.Type) \o PutUint32(h.H) \o MarshalSizedBuffer(h.N) \o u.b]

\* ------------------------------------------------------------------------
\* Unmarshalling: structures field by field, unions by their selector
\* ------------------------------------------------------------------------

\* the fields of the marshalled structures, in declaration order
PublicFields == <<"u16", "u16", "attrs", "sized", "PublicParamsU", "sized">>

NVPublicFields == <<"Handle", "u16", "attrs", "sized", "u16">>

SymDefFields == <<"u16", "SymKeyBitsU", "SymModeU">>

sessionContextDataFields ==
    <<"bool", "bool", "u16", "u8", "u8", "bool", "sized", "sized", "sized", "sized", "SymDef">>

handleContextFields == <<"u8", "Handle", "sized", "handleContextU">>

\* an entry of the authorization area of a response: nonce, attributes, hmac
authResponseFields == <<"sized", "u8", "sized">>

\* a structure with a union and the field that selects its data:
\* struct { Type handleContextType; Data *handleContextU `tpm2:"selector:Type"` },
\* and the same structure with no selector option or with one that names
\* no field
TypedDataFields(selector) == <<"u8", "union:" \o selector>>

\* a structure with a sized field and a field after it:
\* struct { Sym *SymDef `tpm2:"sized"`; Tag uint8 }
SizedSymDefAndTagFields == <<"sized:SymDef", "u8">>

\* the values read for the fields of a structure, as the structure
PublicOf(f) ==
    [Type |-> f[1], NameAlg |-> f[2], Attrs |-> f[3], AuthPolicy |-> f[4],
     Params |-> f[5], Unique |-> f[6]]

NVPublicOf(f) ==
    [Index |-> f[1], NameAlg |-> f[2], Attrs |-> f[3], AuthPolicy |-> f[4], Size |-> f[5]]

SymDefOf(f) == [Algorithm |-> f[1], KeyBits |-> f[2], Mode |-> f[3]]

sessionContextDataOf(f) ==
    [IsAudit |-> f[1], IsExclusive |-> f[2], HashAlg |-> f[3], SessionType |-> f[4],
     PolicyHMACType |-> f[5], IsBound |-> f[6], BoundEntity |-> f[7],
     SessionKey |-> f[8], NonceCaller |-> f[9], NonceTPM |-> f[10], Symmetric |-> f[11]]

handleContextOf(f) == [Type |-> f[1], H |-> f[2], N |-> f[3], Data |-> f[4]]

SizedSymDefAndTagOf(f) == [Sym |-> f[1], Tag |-> f[2]]

TypedDataOf(f) == [Type |-> f[1], Data |-> f[2]]

\* a structure from the read of its fields
StructOf(r, Of(_)) == IF r.ok THEN ReadOk(Of(r.v), r.rest) ELSE ReadFail

\* the scheme of a keyed-hash object: only the null scheme selects a union
\* member the model knows
KeyedHashSchemeOf(r) ==
    IF r.ok /\ r.v = KeyedHashSchemeNull THEN r ELSE ReadFail

\* the context of a union value (muContext): the kind of its container
\* ("none" outside a container, "struct", "slice"), the container itself
\* and the selector option of the field
StructCtx(selector, container) ==
    [kind |-> "struct", selector |-> selector, container |-> container]

SliceCtx == [kind |-> "slice", selector |-> "", container |-> [len |-> 1]]

NoContainerCtx == [kind |-> "none", selector |-> "", container |-> [none |-> TRUE]]

\* the checks marshalUnion and unmarshalUnion make before they select the
\* type of the data: the container is valid and a struct, the field has a
\* selector option, and the container has a field of that name
unionContextError(ctx) ==
    IF ctx.kind = "none" THEN "not inside a container"
    ELSE IF ctx.kind # "struct" THEN "not inside a valid union container"
    ELSE IF ctx.selector = "" THEN "no selector member defined in container"
    ELSE IF ctx.selector \notin DOMAIN ctx.container THEN "invalid selector member name"
    ELSE ""

RECURSIVE unmarshalUnion(_, _)
RECURSIVE unmarshalStruct(_, _, _)
RECURSIVE unmarshalValue(_, _, _)
RECURSIVE unmarshalField(_, _, _)
RECURSIVE unmarshalElems(_, _, _, _)
RECURSIVE unmarshalElem(_, _, _, _)
RECURSIVE unmarshalSliceInto(_, _, _)
RECURSIVE unmarshalSlice(_, _, _)
RECURSIVE unmarshalSizedInto(_, _, _)
RECURSIVE unmarshalSized(_, _, _)

\* unmarshalStruct: the fields in order, acc the fields read so far
unmarshalStruct(fields, b, acc) ==
    IF fields = <<>> THEN ReadOk(acc, b)
    ELSE unmarshalField(unmarshalValue(Head(fields), b, acc), Tail(fields), acc)

\* the loop body of unmarshalStruct, r the read of one field: the first
\* field that fails ends the read with its error
unmarshalField(r, fields, acc) ==
    IF ~r.ok THEN ReadFail
    ELSE unmarshalStruct(fields, r.rest, Append(acc, r.v))

\* unmarshalValue: one value of the named kind; a union is read according
\* to the selector field of the enclosing structure (unmarshalUnion), the
\* first field of acc
unmarshalValue(kind, b, acc) ==
    CASE kind = "u8" -> UnmarshalU8(b)
      [] kind = "bool" -> UnmarshalBool(b)
      [] kind = "u16" -> UnmarshalU16(b)
      [] kind = "u32" -> UnmarshalU32(b)
      [] kind = "Handle" -> UnmarshalHandle(b)
      [] kind = "attrs" -> UnmarshalAttrs(b)
      [] kind = "sized" -> UnmarshalSizedBuffer(b)
      [] kind = "PublicParamsU" ->
           IF acc[1] = ObjectTypeKeyedHash THEN KeyedHashSchemeOf(UnmarshalU16(b))
           ELSE ReadFail
      [] kind = "SymKeyBitsU" ->
           IF SymIsBlockCipher(acc[1]) \/ acc[1] = SymAlgorithmXOR THEN UnmarshalU16(b)
           ELSE IF acc[1] = SymAlgorithmNull THEN ReadOk(0, b)
           ELSE ReadFail
      [] kind = "SymModeU" ->
           IF SymIsBlockCipher(acc[1]) THEN UnmarshalU16(b)
           ELSE IF acc[1] \in {SymAlgorithmXOR, SymAlgorithmNull} THEN ReadOk(0, b)
           ELSE ReadFail
      [] kind = "SymDef" -> StructOf(unmarshalStruct(SymDefFields, b, <<>>), SymDefOf)
      [] kind = "Public" -> StructOf(unmarshalStruct(PublicFields, b, <<>>), PublicOf)
      [] kind = "NVPublic" -> StructOf(unmarshalStruct(NVPublicFields, b, <<>>), NVPublicOf)
      [] kind = "sessionContextData" ->
           StructOf(unmarshalStruct(sessionContextDataFields, b, <<>>), sessionContextDataOf)
      [] kind = "handleContextU" ->
           CASE handleContextU_Select(acc[1]) = "none" -> ReadOk(Nil, b)
             [] handleContextU_Select(acc[1]) = "Object" -> unmarshalValue("Public", b, <<>>)
             [] handleContextU_Select(acc[1]) = "NV" -> unmarshalValue("NVPublic", b, <<>>)
             [] handleContextU_Select(acc[1]) = "Session" ->
                  unmarshalValue("sessionContextData", b, <<>>)
             [] OTHER -> ReadFail
      [] kind = "handleContext" ->
           StructOf(unmarshalStruct(handleContextFields, b, <<>>), handleContextOf)
      [] kind = "authResponse" -> unmarshalStruct(authResponseFields, b, <<>>)
      [] kind = "list" -> unmarshalSlice("list", b, Nil)
      [] kind = "union" -> unmarshalUnion(b, NoContainerCtx)
      [] kind = "union:Type" -> unmarshalUnion(b, StructCtx("Type", [Type |-> acc[1]]))
      [] kind = "union:" -> unmarshalUnion(b, StructCtx("", [Type |-> acc[1]]))
      [] kind = "union:Kind" -> unmarshalUnion(b, StructCtx("Kind", [Type |-> acc[1]]))
      [] kind = "unions" -> unmarshalSlice("unions", b, Nil)
      [] kind = "union:slice" -> unmarshalUnion(b, SliceCtx)
      [] kind = "TypedData" ->
           StructOf(unmarshalStruct(TypedDataFields("Type"), b, <<>>), TypedDataOf)
      [] kind = "TypedDataNoSelector" ->
           StructOf(unmarshalStruct(TypedDataFields(""), b, <<>>), TypedDataOf)
      [] kind = "TypedDataBadSelector" ->
           StructOf(unmarshalStruct(TypedDataFields("Kind"), b, <<>>), TypedDataOf)
      [] kind = "sized:SymDef" -> unmarshalSized("SymDef", b, Nil)
      [] kind = "sized:SymDef:allocated" -> unmarshalSized("SymDef", b, [nil |-> FALSE])
      [] kind = "Raw" -> ReadFail
      [] kind = "sized:Raw" -> unmarshalSized("Raw", b, Nil)
      [] kind = "SizedSymDefAndTag" ->
           StructOf(unmarshalStruct(SizedSymDefAndTagFields, b, <<>>), SizedSymDefAndTagOf)
      [] OTHER -> ReadFail

\* the loop of unmarshalSlice: n elements of kind elem, acc the elements
\* read so far
unmarshalElems(elem, n, b, acc) ==
    IF n = 0 THEN ReadOk(acc, b)
    ELSE unmarshalElem(elem, n, unmarshalValue(elem, b, <<>>), acc)

\* the body of the loop, r the read of one element: the first element that
\* fails ends the read with its error
unmarshalElem(elem, n, r, acc) ==
    IF ~r.ok THEN ReadFail
    ELSE unmarshalElems(elem, n - 1, r.rest, Append(acc, r.v))

\* unmarshalSlice after the size field was read into l: a nil destination
\* is allocated with l elements, and slice.Len() elements are read, the
\* length of an allocated destination whatever l is
unmarshalSliceInto(elem, l, dest) ==
    IF ~l.ok THEN ReadFail
    ELSE unmarshalElems(elem, IF dest.nil THEN l.v ELSE Len(dest.v), l.rest, <<>>)

\* unmarshalSlice: a sized buffer has a 16-bit size field and bytes, any
\* other slice is a list with a 32-bit size field (here a list of uint16,
\* or a list of handleContextU unions)
unmarshalSlice(kind, b, dest) ==
    IF kind = "sized" THEN unmarshalSliceInto("u8", UnmarshalU16(b), dest)
    ELSE IF kind = "unions" THEN unmarshalSliceInto("union:slice", UnmarshalU32(b), dest)
    ELSE unmarshalSliceInto("u16", UnmarshalU32(b), dest)

\* unmarshalUnion of a handleContextU: the checks of the context, then the
\* data of the type handleContextU.Select gives for the selector field of
\* the container; nothing is read when the checks or the selection fail
\* or when no type is selected
unmarshalUnion(b, ctx) ==
    IF unionContextError(ctx) # "" THEN ReadFail
    ELSE unmarshalValue("handleContextU", b, <<ctx.container[ctx.selector]>>)

\* io.LimitReader(buf, n): at most n bytes of b
LimitReader(b, n) == IF n < Len(b) THEN SubSeq(b, 1, n) ELSE b

\* the end of unmarshalSized, r the structure read through the limited
\* reader: the bytes the structure left unread stay in buf
unmarshalSizedInto(r, b, n) ==
    IF ~r.ok THEN ReadFail
    ELSE ReadOk(r.v, r.rest \o Drop(b, Len(LimitReader(b, n))))

\* unmarshalSized: a 16-bit size, then the structure read from at most
\* size bytes; size 0 leaves a nil pointer nil and is an error for an
\* allocated destination
unmarshalSized(kind, b, dest) ==
    IF ~UnmarshalU16(b).ok THEN ReadFail
    ELSE IF UnmarshalU16(b).v = 0 /\ ~dest.nil THEN ReadFail
    ELSE IF UnmarshalU16(b).v = 0 THEN ReadOk(Nil, Drop(b, 2))
    ELSE unmarshalSizedInto(
             unmarshalValue(kind, LimitReader(Drop(b, 2), UnmarshalU16(b).v), <<>>),
             Drop(b, 2), UnmarshalU16(b).v)

UnmarshalPublic(b) == unmarshalValue("Public", b, <<>>)

UnmarshalNVPublic(b) == unmarshalValue("NVPublic", b, <<>>)

UnmarshalSessionData(b) == unmarshalValue("sessionContextData", b, <<>>)

\* mu.UnmarshalFromBytes(b, &data) for data *handleContext
UnmarshalHandleContext(b) == unmarshalValue("handleContext", b, <<>>)

\* a faulty invalidate that leaves the name of the context as it was
handleContext_invalidateKeepsName(h) == [h EXCEPT !.H = HandleUnassigned]

\* handleContext.invalidate
handleContext_invalidate(h) ==
    LET h1 == [h EXCEPT !.H = HandleUnassigned]
    IN [h1 EXCEPT !.N = PutUint32(h1.H)]

\* a faulty permanentContext.invalidate that does what handleContext.invalidate
\* does
permanentContext_invalidateAsHandleContext(h) ==
    [h EXCEPT !.H = HandleUnassigned, !.N = PutUint32(HandleUnassigned)]

\* permanentContext.invalidate and dummyContext.invalidate do nothing
permanentContext_invalidate(h) == h

dummyContext_invalidate(h) == h

\* the invalidate() a context of each variant answers to
Invalidate(h) ==
    CASE h.Type = handleContextTypePermanent -> permanentContext_invalidate(h)
      [] h.Type = handleContextTypeDummy -> dummyContext_invalidate(h)
      [] OTHER -> handleContext_invalidate(h)

\* a faulty checkSessionData that does not compare the audit attributes
checkSessionDataNoAudit(d) ==
    IF ~HashSupported(d.HashAlg)
    THEN "invalid digest algorithm for session context"
    ELSE IF d.SessionType \notin {SessionTypeHMAC, SessionTypePolicy, SessionTypeTrial}
    THEN "invalid session type for session context"
    ELSE IF (d.IsBound /\ Len(d.BoundEntity) = 0) \/ (~d.IsBound /\ Len(d.BoundEntity) > 0)
    THEN "invalid bind properties for session context"
    ELSE IF Len(d.SessionKey) # HashSize(d.HashAlg) /\ Len(d.SessionKey) # 0
    THEN "unexpected session key size for session context"
    ELSE IF Len(d.NonceCaller) # HashSize(d.HashAlg) \/ Len(d.NonceTPM) # HashSize(d.HashAlg)
    THEN "unexpected nonce size for session context"
    ELSE ""

\* the session-data part of handleContext.checkConsistency
checkSessionData(d) ==
    IF ~d.IsAudit /\ d.IsExclusive
    THEN "inconsistent audit attributes for session context"
    ELSE IF ~HashSupported(d.HashAlg)
    THEN "invalid digest algorithm for session context"
    ELSE IF d.SessionType \notin {SessionTypeHMAC, SessionTypePolicy, SessionTypeTrial}
    THEN "invalid session type for session context"
    ELSE IF d.PolicyHMACType > policyHMACTypeMax
    THEN "invalid policy session HMAC type for session context"
    ELSE IF (d.IsBound /\ Len(d.BoundEntity) = 0) \/ (~d.IsBound /\ Len(d.BoundEntity) > 0)
    THEN "invalid bind properties for session context"
    ELSE IF Len(d.SessionKey) # HashSize(d.HashAlg) /\ Len(d.SessionKey) # 0
    THEN "unexpected session key size for session context"
    ELSE IF Len(d.NonceCaller) # HashSize(d.HashAlg) \/ Len(d.NonceTPM) # HashSize(d.HashAlg)
    THEN "unexpected nonce size for session context"
    ELSE IF d.Symmetric.Algorithm \notin
              {SymAlgorithmAES, SymAlgorithmXOR, SymAlgorithmNull, SymAlgorithmSM4,
               SymAlgorithmCamellia}
    THEN "invalid symmetric algorithm for session context"
    ELSE IF SymIsBlockCipher(d.Symmetric.Algorithm) /\ d.Symmetric.Mode # SymModeCFB
    THEN "invalid symmetric mode for session context"
    ELSE ""

\* handleContext.checkConsistency: "" when consistent, else the error
checkConsistency(h) ==
    CASE h.Type = handleContextTypePermanent ->
           IF HandleType(h.H) \notin {HandleTypePCR, HandleTypePermanent}
           THEN "inconsistent handle type for permanent context"
           ELSE IF ~NameIsHandle(h.N) \/ NameHandle(h.N) # h.H
           THEN "name inconsistent with handle for permanent context"
           ELSE ""
      [] h.Type = handleContextTypeObject ->
           IF HandleType(h.H) \notin {HandleTypeTransient, HandleTypePersistent}
           THEN "inconsistent handle type for object context"
           ELSE IF h.Data = Nil
           THEN "no public area for object context"
           ELSE IF ~PublicCompareName(h.Data, h.N)
           THEN "name inconsistent with public area for object context"
           ELSE ""
      [] h.Type = handleContextTypeNvIndex ->
           IF HandleType(h.H) # HandleTypeNVIndex
           THEN "inconsistent handle type for NV context"
           ELSE IF h.Data = Nil
           THEN "no public area for NV context"
           ELSE IF ~NVPublicCompareName(h.Data, h.N)
           THEN "name inconsistent with public area for NV context"
           ELSE ""
      [] h.Type = handleContextTypeSession ->
           IF HandleType(h.H) \notin {HandleTypeHMACSession, HandleTypePolicySession}
           THEN "inconsistent handle type for session context"
           ELSE IF ~NameIsHandle(h.N) \/ NameHandle(h.N) # h.H
           THEN "name inconsistent with handle for session context"
           ELSE IF h.Data # Nil
           THEN checkSessionData(h.Data)
           ELSE ""
      [] OTHER -> "unrecognized context type"

\* ------------------------------------------------------------------------
\* Serialization and restore of a context
\* ------------------------------------------------------------------------

\* mu.MarshalToBytes(HashAlgorithmSHA256, hash.Sum(nil), data): the blob is
\* algId(u16) || size(u16) digest || size(u16) body
PackBlob(alg, digest, body) ==
    MarshalU16(alg) \o MarshalSizedBuffer(digest) \o MarshalSizedBuffer(body)

\* a faulty SerializeToBytes that writes the authorization value after the
\* context data
SerializeToBytesWithAuth(c) ==
    IF c.Type = handleContextTypeDummy THEN [ok |-> TRUE, b |-> <<>>]
    ELSE IF ~MarshalHandleContext(c).ok THEN [ok |-> FALSE, b |-> <<>>]
    ELSE [ok |-> TRUE,
          b |-> PackBlob(HashAlgorithmSHA256,
                         HashSum(HashAlgorithmSHA256,
                                 MarshalHandleContext(c).b \o MarshalSizedBuffer(c.authValue)),
                         MarshalHandleContext(c).b \o MarshalSizedBuffer(c.authValue))]

\* handleContext.SerializeToBytes (dummyContext.SerializeToBytes returns
\* nil).  c is a whole context, authorization value included; ok = FALSE is
\* the panic on a marshalling error.
SerializeToBytes(c) ==
    IF c.Type = handleContextTypeDummy THEN [ok |-> TRUE, b |-> <<>>]
    ELSE IF ~MarshalHandleContext(c).ok THEN [ok |-> FALSE, b |-> <<>>]
    ELSE [ok |-> TRUE,
          b |-> PackBlob(HashAlgorithmSHA256,
                         HashSum(HashAlgorithmSHA256, MarshalHandleContext(c).b),
                         MarshalHandleContext(c).b)]

\* the result of a restore that failed at the named step: no context
RestoreError(why) == [err |-> why, ctx |-> Nil, n |-> 0]

\* a faulty RestoreBody that lets permanent contexts through
RestoreBodyAnyVariant(d, consumed) ==
    IF ~d.ok THEN RestoreError("cannot unmarshal context data")
    ELSE IF Len(d.rest) > 0 THEN RestoreError("context blob contains trailing bytes")
    ELSE IF checkConsistency(d.v) # "" THEN RestoreError(checkConsistency(d.v))
    ELSE [err |-> "",
          ctx |-> [Type |-> d.v.Type, H |-> d.v.H, N |-> d.v.N, Data |-> d.v.Data,
                   authValue |-> NoAuth, attrs |-> {}],
          n |-> consumed]

\* the part of CreateHandleContextFromReader after the checksum, d the
\* result of unmarshalling the body: refuse an unmarshalling error, trailing
\* bytes and permanent contexts, check consistency and wrap the data in the
\* context of its variant, with no authorization value and no session
\* attributes
RestoreBody(d, consumed) ==
    IF ~d.ok THEN RestoreError("cannot unmarshal context data")
    ELSE IF Len(d.rest) > 0 THEN RestoreError("context blob contains trailing bytes")
    ELSE IF d.v.Type = handleContextTypePermanent
    THEN RestoreError("cannot create a permanent context from serialized data")
    ELSE IF checkConsistency(d.v) # "" THEN RestoreError(checkConsistency(d.v))
    ELSE [err |-> "",
          ctx |-> [Type |-> d.v.Type, H |-> d.v.H, N |-> d.v.N, Data |-> d.v.Data,
                   authValue |-> NoAuth, attrs |-> {}],
          n |-> consumed]

\* mu.UnmarshalFromReader(r, &integrityAlg, &integrity, &b)
UnpackBlob(blob) == unmarshalStruct(<<"u16", "sized", "sized">>, blob, <<>>)

\* a faulty RestoreUnpacked that unmarshals the body before it verifies
\* the checksum
RestoreUnpackedChecksumLast(u, len) ==
    IF ~u.ok THEN RestoreError("cannot unpack context blob and checksum")
    ELSE IF ~UnmarshalHandleContext(u.v[3]).ok
    THEN RestoreError("cannot unmarshal context data")
    ELSE IF ~HashSupported(u.v[1]) THEN RestoreError("invalid checksum algorithm")
    ELSE IF HashSum(u.v[1], u.v[3]) # u.v[2] THEN RestoreError("invalid checksum")
    ELSE RestoreBody(UnmarshalHandleContext(u.v[3]), len - Len(u.rest))

\* the part of CreateHandleContextFromReader after the unpacking, u the
\* result of unmarshalling integrityAlg, integrity and b: the checksum, then
\* the body
RestoreUnpacked(u, len) ==
    IF ~u.ok THEN RestoreError("cannot unpack context blob and checksum")
    ELSE IF ~HashSupported(u.v[1]) THEN RestoreError("invalid checksum algorithm")
    ELSE IF HashSum(u.v[1], u.v[3]) # u.v[2] THEN RestoreError("invalid checksum")
    ELSE RestoreBody(UnmarshalHandleContext(u.v[3]), len - Len(u.rest))

\* CreateHandleContextFromReader / CreateHandleContextFromBytes: unpack
\* algId, digest and body, verify the checksum, then restore the body.
\* n is the number of bytes of the blob that were consumed.
CreateHandleContextFromBytes(blob) ==
    RestoreUnpacked(UnpackBlob(blob), Len(blob))

\* ------------------------------------------------------------------------
\* Errors (errors.go) as far as the registry needs them
\* ------------------------------------------------------------------------

AnyCommandCode == "AnyCommandCode"

AnyErrorCode == 256

AnyHandleIndex == -1

AnyWarningCode == 128

\* TPM_RC_REFERENCE_H0 as a warning code
WarningReferenceH0 == 16

\* TPM_RC_HANDLE as a format-1 error code (0x0B + errorCode1Start)
ErrorHandle == 139

\* TPM_RC_VALUE as a format-1 error code
ErrorValue == 132

NoError == [kind |-> "nil"]

TPMWarning(command, code) == [kind |-> "TPMWarning", Command |-> command, Code |-> code, Index |-> 0]

TPMError(command, code) == [kind |-> "TPMError", Command |-> command, Code |-> code, Index |-> 0]

TPMHandleError(command, code, index) ==
    [kind |-> "TPMHandleError", Command |-> command, Code |-> code, Index |-> index]

InvalidResponseError(command, msg) ==
    [kind |-> "InvalidResponseError", Command |-> command, Code |-> 0, Index |-> 0, msg |-> msg]

ResourceUnavailableError(handle) == [kind |-> "ResourceUnavailableError", Handle |-> handle]

ProgrammerError(msg) == [kind |-> "ProgrammerError", msg |-> msg]

\* errors.New / fmt.Errorf
PlainError(msg) == [kind |-> "error", msg |-> msg]

TctiError(op) == [kind |-> "TctiError", Op |-> op]

\* IsTPMWarning
IsTPMWarning(err, code, command) ==
    /\ err.kind = "TPMWarning"
    /\ (code = AnyWarningCode \/ err.Code = code)
    /\ (command = AnyCommandCode \/ err.Command = command)

\* IsTPMHandleError
IsTPMHandleError(err, code, command, handle) ==
    /\ err.kind = "TPMHandleError"
    /\ (code = AnyErrorCode \/ err.Code = code)
    /\ (command = AnyCommandCode \/ err.Command = command)
    /\ (handle = AnyHandleIndex \/ err.Index = handle)

\* ------------------------------------------------------------------------
\* Constructors of contexts (resources.go)
\* ------------------------------------------------------------------------

\* a context: the handleContext fields and the wrapper's authorization value
Context(type, h, n, data) ==
    [Type |-> type, H |-> h, N |-> n, Data |-> data, authValue |-> NoAuth]

makeDummyContext(handle) ==
    Context(handleContextTypeDummy, handle, PutUint32(handle), Nil)

makePermanentContext(handle) ==
    Context(handleContextTypePermanent, handle, PutUint32(handle), Nil)

makeObjectContext(handle, name, public) ==
    Context(handleContextTypeObject, handle, name, public)

makeNVIndexContext(name, public) ==
    Context(handleContextTypeNvIndex, public.Index, name, public)

makeSessionContext(handle, data) ==
    Context(handleContextTypeSession, handle, PutUint32(handle), data)

\* the result of a constructor: an error and no context, or a context
Failed(err) == [err |-> err, ctx |-> Nil]

Made(ctx) == [err |-> NoError, ctx |-> ctx]

\* CreateObjectResourceContextFromPublic
CreateObjectResourceContextFromPublic(handle, pub) ==
    IF ~PublicName(pub).ok
    THEN Failed(PlainError("cannot compute name from public area"))
    ELSE LET rc == makeObjectContext(handle, PublicName(pub).name, pub)
         IN IF checkConsistency(rc) # "" THEN Failed(PlainError(checkConsistency(rc)))
            ELSE Made(rc)

\* CreateNVIndexResourceContextFromPublic
CreateNVIndexResourceContextFromPublic(pub) ==
    IF ~NVPublicName(pub).ok
    THEN Failed(PlainError("cannot compute name from public area"))
    ELSE LET rc == makeNVIndexContext(NVPublicName(pub).name, pub)
         IN IF checkConsistency(rc) # "" THEN Failed(PlainError(checkConsistency(rc)))
            ELSE Made(rc)

\* a faulty makeObjectContextFromTPM that does not compare the name of the
\* public area with the name the TPM returned
makeObjectContextFromTPMUnchecked(context, resp) ==
    IF resp.err # NoError THEN Failed(resp.err)
    ELSE IF ~PublicName(resp.pub).ok
    THEN Failed(InvalidResponseError("ReadPublic", "cannot compute name of returned public area"))
    ELSE Made(makeObjectContext(context.H, resp.name, resp.pub))

\* makeObjectContextFromTPM: resp is what ReadPublic(context) returned
makeObjectContextFromTPM(context, resp) ==
    IF resp.err # NoError THEN Failed(resp.err)
    ELSE IF ~PublicName(resp.pub).ok
    THEN Failed(InvalidResponseError("ReadPublic", "cannot compute name of returned public area"))
    ELSE IF PublicName(resp.pub).name # resp.name
    THEN Failed(InvalidResponseError("ReadPublic", "name and public area don't match"))
    ELSE Made(makeObjectContext(context.H, resp.name, resp.pub))

\* makeNVIndexContextFromTPM: resp is what NVReadPublic(context) returned
makeNVIndexContextFromTPM(context, resp) ==
    IF resp.err # NoError THEN Failed(resp.err)
    ELSE IF ~NVPublicName(resp.pub).ok
    THEN Failed(InvalidResponseError("NVReadPublic", "cannot compute name of returned public area"))
    ELSE IF NVPublicName(resp.pub).name # resp.name
    THEN Failed(InvalidResponseError("NVReadPublic", "name and public area don't match"))
    ELSE IF resp.pub.Index # context.H
    THEN Failed(InvalidResponseError("NVReadPublic", "unexpected index in public area"))
    ELSE Made(makeNVIndexContext(resp.name, resp.pub))

\* the switch on the error in the loop of CreateResourceContextFromTPM: a
\* TPM_RC_REFERENCE_H0 warning and a TPM_RC_HANDLE error mean that the
\* resource is unavailable
MapUnavailable(handle, r) ==
    IF IsTPMWarning(r.err, WarningReferenceH0, AnyCommandCode)
    THEN Failed(ResourceUnavailableError(handle))
    ELSE IF IsTPMHandleError(r.err, ErrorHandle, AnyCommandCode, AnyHandleIndex)
    THEN Failed(ResourceUnavailableError(handle))
    ELSE r

\* one pass of the loop of CreateResourceContextFromTPM: read the public
\* area with the context rc and map the errors
ResourceFromTPMPass(handle, rc, resp) ==
    MapUnavailable(handle,
                   IF HandleType(handle) = HandleTypeNVIndex
                   THEN makeNVIndexContextFromTPM(rc, resp)
                   ELSE makeObjectContextFromTPM(rc, resp))

\* a read of the public area: the number of sessions it was made with and
\* the context it was made for
ReadWith(nsessions, rc) == [sessions |-> nsessions, rc |-> rc]

\* a faulty second pass that is made whether sessions were passed or not
SecondPassAlways(handle, nsessions, p1, resp2) ==
    IF p1.err # NoError
    THEN [err |-> p1.err, ctx |-> Nil, reads |-> 1,
          log |-> <<ReadWith(0, makeDummyContext(handle))>>]
    ELSE [reads |-> 2,
          log |-> <<ReadWith(0, makeDummyContext(handle)), ReadWith(nsessions, p1.ctx)>>]
         @@ ResourceFromTPMPass(handle, p1.ctx, resp2)

\* the second pass of the loop, p1 the result of the first: made only when
\* the first succeeded and sessions were passed; log is the reads made, the
\* first with no session for the dummy context, the second with the
\* sessions for the context of the first
SecondPass(handle, nsessions, p1, resp2) ==
    IF p1.err # NoError
    THEN [err |-> p1.err, ctx |-> Nil, reads |-> 1,
          log |-> <<ReadWith(0, makeDummyContext(handle))>>]
    ELSE IF nsessions = 0
    THEN [err |-> NoError, ctx |-> p1.ctx, reads |-> 1,
          log |-> <<ReadWith(0, makeDummyContext(handle))>>]
    ELSE [reads |-> 2,
          log |-> <<ReadWith(0, makeDummyContext(handle)), ReadWith(nsessions, p1.ctx)>>]
         @@ ResourceFromTPMPass(handle, p1.ctx, resp2)

\* CreateResourceContextFromTPM(handle, sessions...): resp1 and resp2 are the
\* TPM's answers to the first and the second read; the first read is made
\* with a placeholder context, the second with the context the first made;
\* reads counts the reads made
CreateResourceContextFromTPM(handle, nsessions, resp1, resp2) ==
    SecondPass(handle, nsessions,
               ResourceFromTPMPass(handle, makeDummyContext(handle), resp1), resp2)

\* sessionContext.tpmAttrs: the session attributes sent to the TPM
tpmAttrs(attrs) ==
    (IF "AttrContinueSession" \in attrs THEN {"attrContinueSession"} ELSE {}) \cup
    (IF "AttrAuditExclusive" \in attrs THEN {"attrAuditExclusive", "attrAudit"} ELSE {}) \cup
    (IF "AttrAuditReset" \in attrs THEN {"attrAuditReset", "attrAudit"} ELSE {}) \cup
    (IF "AttrCommandEncrypt" \in attrs THEN {"attrDecrypt"} ELSE {}) \cup
    (IF "AttrResponseEncrypt" \in attrs THEN {"attrEncrypt"} ELSE {}) \cup
    (IF "AttrAudit" \in attrs THEN {"attrAudit"} ELSE {})

\* ------------------------------------------------------------------------
\* State
\* ------------------------------------------------------------------------

VARIABLES
    ops,                 \* the number of operations performed on the TPMContext
    heap,                \* the handleContext structures allocated so far
    sessions,            \* the sessionContext wrappers: a handleContext and attrs
    permanentResources,  \* TPMContext.permanentResources: handle -> context
    wire,                \* the last command written to the transport
    last,                \* the last registry operation and what it returned
    bctx,                \* the context held by the serialization client
    blob,                \* the context blob held by the serialization client
    bkind,               \* where blob comes from
    out,                 \* what the last serialization operation returned
    tcti,                \* the calls made on the transport by the last command
    run,                 \* the last command run on the pipeline and what it returned
    mu,                  \* the values of the codec client and what the codec returned
    dec,                 \* the response code decoded last and the error it gave
    chg                  \* the last command that changes an authorization value

vars == <<ops, heap, sessions, permanentResources, wire, last, bctx, blob, bkind, out,
         tcti, run, mu, dec, chg>>

regvars == <<ops, heap, sessions, permanentResources, wire, last>>

blobvars == <<bctx, blob, bkind, out>>

pipevars == <<tcti, run>>

muvars == <<mu>>

errvars == <<dec>>

authvars == <<chg>>

\* ------------------------------------------------------------------------
\* Inputs
\* ------------------------------------------------------------------------

Fill(n, v) == [i \in 1..n |-> v]

ObjectHandles == {<<HandleTypeTransient, 0>>, <<HandleTypePersistent, 1>>}

NVIndexHandles == {<<HandleTypeNVIndex, 0>>}

SessionHandles == {<<HandleTypeHMACSession, 0>>, <<HandleTypePolicySession, 0>>}

PermanentHandles == {HandleOwner, <<HandleTypePCR, 0>>}

AuthValues == {NoAuth, <<1>>, <<2, 3>>}

PubA ==
    [Type |-> ObjectTypeKeyedHash, NameAlg |-> HashAlgorithmSHA256, Attrs |-> {4, 6},
     AuthPolicy |-> <<>>, Params |-> KeyedHashSchemeNull, Unique |-> <<7>>]

\* a public area whose name algorithm is TPM_ALG_NULL: it has no name
PubNoName == [PubA EXCEPT !.NameAlg = 16]

NVPubA ==
    [Index |-> <<HandleTypeNVIndex, 0>>, NameAlg |-> HashAlgorithmSHA256, Attrs |-> {1},
     AuthPolicy |-> <<>>, Size |-> 8]

NVPubOther == [NVPubA EXCEPT !.Index = <<HandleTypeNVIndex, 1>>]

\* an NV public area whose index is not an NV-index handle
NVPubBadIndex == [NVPubA EXCEPT !.Index = <<HandleTypeTransient, 0>>]

NVPubNoName == [NVPubA EXCEPT !.NameAlg = 16]

Publics == {PubA, PubNoName}

NVPublics == {NVPubA, NVPubBadIndex, NVPubNoName}

\* session data as StartAuthSession leaves it: an unbound, unsalted HMAC
\* session, and a bound, exclusive audit session with a session key and
\* AES-CFB parameter encryption
SessDataA ==
    [IsAudit |-> FALSE, IsExclusive |-> FALSE, HashAlg |-> HashAlgorithmSHA256,
     SessionType |-> SessionTypeHMAC, PolicyHMACType |-> 0, IsBound |-> FALSE,
     BoundEntity |-> <<>>, SessionKey |-> <<>>,
     NonceCaller |-> Fill(32, 1), NonceTPM |-> Fill(32, 2),
     Symmetric |-> [Algorithm |-> SymAlgorithmNull, KeyBits |-> 0, Mode |-> 0]]

SessDataB ==
    [IsAudit |-> TRUE, IsExclusive |-> TRUE, HashAlg |-> HashAlgorithmSHA1,
     SessionType |-> SessionTypePolicy, PolicyHMACType |-> 1, IsBound |-> TRUE,
     BoundEntity |-> PutUint32(HandleOwner), SessionKey |-> Fill(20, 9),
     NonceCaller |-> Fill(20, 3), NonceTPM |-> Fill(20, 4),
     Symmetric |-> [Algorithm |-> SymAlgorithmAES, KeyBits |-> 128, Mode |-> SymModeCFB]]

SessionDatas == {SessDataA, SessDataB}

\* session data that breaks one rule of the data model each
BadSessionDatas ==
    {[SessDataA EXCEPT !.IsExclusive = TRUE],
     [SessDataA EXCEPT !.HashAlg = 16],
     [SessDataA EXCEPT !.SessionType = 2],
     [SessDataA EXCEPT !.PolicyHMACType = 3],
     [SessDataA EXCEPT !.IsBound = TRUE],
     [SessDataA EXCEPT !.BoundEntity = <<1, 2>>],
     [SessDataA EXCEPT !.SessionKey = <<1>>],
     [SessDataA EXCEPT !.NonceCaller = <<1>>],
     [SessDataA EXCEPT !.NonceTPM = Fill(20, 2)],
     [SessDataB EXCEPT !.Symmetric = [Algorithm |-> SymAlgorithmAES, KeyBits |-> 128, Mode |-> 66]],
     [SessDataB EXCEPT !.IsAudit = FALSE]}

\* handleContext data an external party can put in a blob: of every
\* variant tag, consistent and not
ForgedContexts ==
    {[Type |-> handleContextTypePermanent, H |-> HandleOwner, N |-> PutUint32(HandleOwner), Data |-> Nil],
     [Type |-> handleContextTypeDummy, H |-> <<HandleTypeTransient, 0>>,
      N |-> PutUint32(<<HandleTypeTransient, 0>>), Data |-> Nil],
     [Type |-> 5, H |-> <<HandleTypeTransient, 0>>,
      N |-> PutUint32(<<HandleTypeTransient, 0>>), Data |-> Nil],
     [Type |-> handleContextTypeObject, H |-> <<HandleTypeTransient, 0>>,
      N |-> PublicName(PubA).name, Data |-> PubA],
     [Type |-> handleContextTypeObject, H |-> <<HandleTypeNVIndex, 0>>,
      N |-> PublicName(PubA).name, Data |-> PubA],
     [Type |-> handleContextTypeObject, H |-> <<HandleTypeTransient, 0>>,
      N |-> PutUint32(<<HandleTypeTransient, 0>>), Data |-> PubA],
     [Type |-> handleContextTypeObject, H |-> <<HandleTypeTransient, 0>>,
      N |-> PublicName(PubA).name, Data |-> PubNoName],
     [Type |-> handleContextTypeNvIndex, H |-> <<HandleTypeNVIndex, 0>>,
      N |-> NVPublicName(NVPubA).name, Data |-> NVPubA],
     [Type |-> handleContextTypeNvIndex, H |-> <<HandleTypePersistent, 0>>,
      N |-> NVPublicName(NVPubA).name, Data |-> NVPubA],
     [Type |-> handleContextTypeNvIndex, H |-> <<HandleTypeNVIndex, 0>>,
      N |-> NVPublicName(NVPubOther).name, Data |-> NVPubA],
     [Type |-> handleContextTypeSession, H |-> <<HandleTypeTransient, 0>>,
      N |-> PutUint32(<<HandleTypeTransient, 0>>), Data |-> SessDataA],
     [Type |-> handleContextTypeSession, H |-> <<HandleTypeHMACSession, 0>>,
      N |-> PutUint32(<<HandleTypeHMACSession, 1>>), Data |-> SessDataA],
     [Type |-> handleContextTypeSession, H |-> HandleUnassigned,
      N |-> PutUint32(HandleUnassigned), Data |-> SessDataA]}
    \cup {[Type |-> handleContextTypeSession, H |-> <<HandleTypeHMACSession, 0>>,
           N |-> PutUint32(<<HandleTypeHMACSession, 0>>), Data |-> d] :
          d \in SessionDatas \cup BadSessionDatas}

\* the checksum algorithm ids an external party can name: two supported
\* ones and TPM_ALG_NULL
ForgedAlgs == {HashAlgorithmSHA256, HashAlgorithmSHA1, 16}

\* what is added to one byte of a blob to damage it
TamperDeltas == {1, 128, 255}

\* ------------------------------------------------------------------------
\* The serialization client: one context, one blob
\* ------------------------------------------------------------------------

NoOut == [op |-> "none", err |-> "", ctx |-> Nil, n |-> 0]

\* the message of an error, "" for no error
ErrText(e) == IF e = NoError THEN "" ELSE e.msg

BlobInit ==
    /\ heap = [i \in 1..MaxCtx |-> Nil]
    /\ sessions = [i \in 1..MaxSess |-> Nil]
    /\ permanentResources = [h \in PermanentHandles |-> 0]
    /\ wire = Nil
    /\ last = [op |-> "none"]
    /\ ops = 0
    /\ bctx = Nil
    /\ blob = <<>>
    /\ bkind = "none"
    /\ out = NoOut
    /\ tcti = <<>>
    /\ run = Nil
    /\ mu = Nil
    /\ dec = Nil
    /\ chg = Nil

\* the client makes and changes contexts before it serializes one, and the
\* run of a client ends with the restore of its blob.  What a constructor
\* returned:
Returned(op, r) == [op |-> op, err |-> ErrText(r.err), ctx |-> r.ctx, n |-> 0]

\* the client takes the context a constructor returned, if it returned one
Adopted(r, old) == IF r.err = NoError THEN r.ctx ELSE old

BlobCreateObject ==
    \E handle \in ObjectHandles \cup NVIndexHandles, pub \in Publics :
        /\ bkind = "none"
        /\ out' = Returned("CreateObjectResourceContextFromPublic",
                           CreateObjectResourceContextFromPublic(handle, pub))
        /\ bctx' = Adopted(CreateObjectResourceContextFromPublic(handle, pub), bctx)
        /\ UNCHANGED <<blob, bkind>>
        /\ UNCHANGED <<regvars, pipevars, muvars, errvars, authvars>>

BlobCreateNVIndex ==
    \E pub \in NVPublics :
        /\ bkind = "none"
        /\ out' = Returned("CreateNVIndexResourceContextFromPublic",
                           CreateNVIndexResourceContextFromPublic(pub))
        /\ bctx' = Adopted(CreateNVIndexResourceContextFromPublic(pub), bctx)
        /\ UNCHANGED <<blob, bkind>>
        /\ UNCHANGED <<regvars, pipevars, muvars, errvars, authvars>>

\* a session context as StartAuthSession returns it
BlobStartAuthSession ==
    \E handle \in SessionHandles, data \in SessionDatas :
        /\ bkind = "none"
        /\ out' = Returned("StartAuthSession", Made(makeSessionContext(handle, data)))
        /\ bctx' = makeSessionContext(handle, data)
        /\ UNCHANGED <<blob, bkind>>
        /\ UNCHANGED <<regvars, pipevars, muvars, errvars, authvars>>

\* CreateIncompleteSessionContext
BlobCreateIncompleteSession ==
    \E handle \in SessionHandles :
        /\ bkind = "none"
        /\ out' = Returned("CreateIncompleteSessionContext",
                           Made(makeSessionContext(handle, Nil)))
        /\ bctx' = makeSessionContext(handle, Nil)
        /\ UNCHANGED <<blob, bkind>>
        /\ UNCHANGED <<regvars, pipevars, muvars, errvars, authvars>>

BlobGetPermanent ==
    \E handle \in PermanentHandles :
        /\ bkind = "none"
        /\ out' = Returned("GetPermanentContext", Made(makePermanentContext(handle)))
        /\ bctx' = makePermanentContext(handle)
        /\ UNCHANGED <<blob, bkind>>
        /\ UNCHANGED <<regvars, pipevars, muvars, errvars, authvars>>

\* resourceContext.SetAuthValue
SetAuthValue(c, v) == [c EXCEPT !.authValue = v]

BlobSetAuthValue ==
    \E v \in AuthValues :
        /\ bctx # Nil
        /\ bctx.Type # handleContextTypeSession
        /\ bctx.authValue # v
        /\ out.op \notin {"tamper", "CreateHandleContextFromBytes"}
        /\ bctx' = SetAuthValue(bctx, v)
        /\ out' = [op |-> "SetAuthValue", err |-> "", ctx |-> Nil, n |-> 0]
        /\ UNCHANGED <<blob, bkind>>
        /\ UNCHANGED <<regvars, pipevars, muvars, errvars, authvars>>

BlobInvalidate ==
    /\ bctx # Nil
    /\ bkind = "none"
    /\ bctx' = Invalidate(bctx)
    /\ out' = [op |-> "invalidate", err |-> "", ctx |-> Nil, n |-> 0]
    /\ blob' = <<>>
    /\ bkind' = "none"
    /\ UNCHANGED <<regvars, pipevars, muvars, errvars, authvars>>

\* HandleContext.SerializeToBytes; a panic leaves the client without a blob
BlobSerialize ==
    /\ bctx # Nil
    /\ bkind = "none"
    /\ blob' = SerializeToBytes(bctx).b
    /\ bkind' = IF SerializeToBytes(bctx).ok THEN "serialized" ELSE "none"
    /\ out' = [op |-> "SerializeToBytes",
               err |-> IF SerializeToBytes(bctx).ok THEN "" ELSE "panic",
               ctx |-> Nil, n |-> 0]
    /\ UNCHANGED bctx
    /\ UNCHANGED <<regvars, pipevars, muvars, errvars, authvars>>

\* an external party packs handleContext data of its choosing with a
\* checksum that matches it, possibly followed by bytes after the data
Forged(alg, body) == PackBlob(alg, HashSum(alg, body), body)

BlobForge ==
    \E h \in ForgedContexts, alg \in ForgedAlgs, extra \in {<<>>, <<0>>} :
        /\ bkind = "none"
        /\ bctx = Nil
        /\ blob' = Forged(alg, MarshalHandleContext(h).b \o extra)
        /\ bkind' = "forged"
        /\ bctx' = Nil
        /\ out' = [op |-> "forge", err |-> "", ctx |-> Nil, n |-> 0]
        /\ UNCHANGED <<regvars, pipevars, muvars, errvars, authvars>>

\* one byte of the blob is changed in storage or in transit
BlobTamper ==
    \E i \in 1..Len(blob), d \in TamperDeltas :
        /\ out.op \in {"SerializeToBytes", "forge"}
        /\ bkind \in {"serialized", "forged"}
        /\ blob' = [blob EXCEPT ![i] = (@ + d) % 256]
        /\ bkind' = "tampered"
        /\ out' = [op |-> "tamper", err |-> "", ctx |-> Nil, n |-> i]
        /\ UNCHANGED bctx
        /\ UNCHANGED <<regvars, pipevars, muvars, errvars, authvars>>

\* CreateHandleContextFromBytes(blob)
BlobRestore ==
    /\ bkind # "none"
    /\ out.op # "CreateHandleContextFromBytes"
    /\ out' = [op |-> "CreateHandleContextFromBytes"] @@ CreateHandleContextFromBytes(blob)
    /\ UNCHANGED <<bctx, blob, bkind>>
    /\ UNCHANGED <<regvars, pipevars, muvars, errvars, authvars>>

BlobNext ==
    \/ BlobCreateObject
    \/ BlobCreateNVIndex
    \/ BlobStartAuthSession
    \/ BlobCreateIncompleteSession
    \/ BlobGetPermanent
    \/ BlobSetAuthValue
    \/ BlobInvalidate
    \/ BlobSerialize
    \/ BlobForge
    \/ BlobTamper
    \/ BlobRestore

SpecBlob == BlobInit /\ [][BlobNext]_vars

\* ------------------------------------------------------------------------
\* Properties of serialization and restore (SpecBlob)
\* ------------------------------------------------------------------------

\* the last operation restored the blob that SerializeToBytes made of bctx
RestoredSerialized ==
    /\ out.op = "CreateHandleContextFromBytes"
    /\ bkind = "serialized"

\* the restore succeeded with a context equal to bctx in handle, name and
\* payload, with an empty authorization value, and consumed the whole blob
RoundTripped ==
    /\ out.err = ""
    /\ out.ctx # Nil
    /\ out.ctx.Type = bctx.Type
    /\ out.ctx.H = bctx.H
    /\ out.ctx.N = bctx.N
    /\ out.ctx.Data = bctx.Data
    /\ out.ctx.authValue = NoAuth
    /\ out.n = Len(blob)

BadChecksum(u) ==
    \/ ~HashSupported(u.v[1])
    \/ u.v[2] # HashSum(u.v[1], u.v[3])

\* C5: a restore fails and returns no context whenever the algorithm id of
\* the blob is not a supported digest algorithm or the stored digest is not
\* the digest of the stored body, as after one byte of the blob is changed;
\* the failure is the checksum's, whatever the body holds, because the
\* checksum is verified before the body is unmarshalled or checked.
C5_ChecksumVerifiedFirst ==
    out.op = "CreateHandleContextFromBytes" =>
        /\ (UnpackBlob(blob).ok /\ BadChecksum(UnpackBlob(blob))) =>
               /\ out.ctx = Nil
               /\ out.err \in {"invalid checksum algorithm", "invalid checksum"}
        /\ bkind = "tampered" => (out.ctx = Nil /\ out.err # "")

\* a blob with one byte of a serialized session changed was refused for its
\* checksum
C5_Witness ==
    /\ out.op = "CreateHandleContextFromBytes"
    /\ bkind = "tampered"
    /\ bctx # Nil
    /\ bctx.Type = handleContextTypeSession
    /\ out.err = "invalid checksum"
    /\ out.ctx = Nil

\* the variant tag of the body of a blob whose checksum is valid, -1 if none
BodyTag(u) ==
    IF u.ok /\ ~BadChecksum(u) /\ Len(u.v[3]) > 0 THEN u.v[3][1] ELSE -1

\* C6: a restore never yields a Permanent or Dummy context: every restored
\* context is an Object, NV-index or Session context, and a blob with a
\* valid checksum whose body carries the permanent tag, the dummy tag or an
\* unknown tag is rejected with an error and no context.
C6_NeverPermanentOrDummy ==
    out.op = "CreateHandleContextFromBytes" =>
        /\ out.err = "" =>
               out.ctx.Type \in {handleContextTypeObject, handleContextTypeNvIndex,
                                 handleContextTypeSession}
        /\ (/\ UnpackBlob(blob).ok
            /\ ~BadChecksum(UnpackBlob(blob))
            /\ BodyTag(UnpackBlob(blob)) \notin
                   {handleContextTypeObject, handleContextTypeNvIndex,
                    handleContextTypeSession})
           => (out.ctx = Nil /\ out.err # "")

\* a well-formed permanent body with a valid checksum was rejected
C6_Witness ==
    /\ out.op = "CreateHandleContextFromBytes"
    /\ bkind = "forged"
    /\ BodyTag(UnpackBlob(blob)) = handleContextTypePermanent
    /\ out.err = "cannot create a permanent context from serialized data"
    /\ out.ctx = Nil

\* C7: the serialized form of a context does not depend on its
\* authorization value: whatever value SetAuthValue gave it before or after,
\* the context serializes to the bytes of the blob made of it.
C7_AuthValueNotSerialized ==
    (bkind = "serialized" /\ bctx.Type # handleContextTypeSession) =>
        \A v \in AuthValues :
            /\ SerializeToBytes(SetAuthValue(bctx, v)).ok
            /\ SerializeToBytes(SetAuthValue(bctx, v)).b = blob

\* a context was serialized and then given another authorization value
C7_Witness ==
    /\ bkind = "serialized"
    /\ out.op = "SetAuthValue"
    /\ bctx.authValue = <<1>>
    /\ Len(blob) > 0

\* the invariants of the data model for a context handed to a client
DataModelInvariant(c) ==
    CASE c.Type = handleContextTypeObject ->
           /\ HandleType(c.H) \in {HandleTypeTransient, HandleTypePersistent}
           /\ HashSupported(c.Data.NameAlg)
           /\ c.N = MarshalU16(c.Data.NameAlg) \o
                    HashSum(c.Data.NameAlg, MarshalPublic(c.Data))
      [] c.Type = handleContextTypeNvIndex ->
           /\ HandleType(c.H) = HandleTypeNVIndex
           /\ HashSupported(c.Data.NameAlg)
           /\ c.N = MarshalU16(c.Data.NameAlg) \o
                    HashSum(c.Data.NameAlg, MarshalNVPublic(c.Data))
      [] c.Type = handleContextTypeSession ->
           /\ HandleType(c.H) \in {HandleTypeHMACSession, HandleTypePolicySession}
           /\ c.N = PutUint32(c.H)
           /\ c.Data # Nil =>
                  /\ c.Data.IsExclusive => c.Data.IsAudit
                  /\ c.Data.IsBound <=> Len(c.Data.BoundEntity) > 0
                  /\ Len(c.Data.NonceCaller) = HashSize(c.Data.HashAlg)
                  /\ Len(c.Data.NonceTPM) = HashSize(c.Data.HashAlg)
                  /\ Len(c.Data.SessionKey) \in {0, HashSize(c.Data.HashAlg)}
      [] OTHER -> FALSE

\* C10: every context returned by a restore and by
\* CreateObjectResourceContextFromPublic / CreateNVIndexResourceContextFromPublic
\* satisfies the data-model invariants: handle type of the variant, name
\* computed from the public area (Object, NV) or from the handle (Session),
\* and for session data exclusive implies audit, bound iff a bound-entity
\* name, nonces of the digest size, session key empty or of the digest size.
C10_ReturnedContextsConsistent ==
    (/\ out.op \in {"CreateHandleContextFromBytes",
                    "CreateObjectResourceContextFromPublic",
                    "CreateNVIndexResourceContextFromPublic"}
     /\ out.err = "")
    => (out.ctx # Nil /\ DataModelInvariant(out.ctx))

\* a bound, exclusive audit session came back from a restore
C10_Witness ==
    /\ out.op = "CreateHandleContextFromBytes"
    /\ out.err = ""
    /\ out.ctx.Type = handleContextTypeSession
    /\ out.ctx.Data.IsExclusive
    /\ out.ctx.Data.IsBound

\* ------------------------------------------------------------------------
\* The registry: contexts in the heap, session wrappers, the transport
\* ------------------------------------------------------------------------

CtxIds == 1..MaxCtx

SessIds == 1..MaxSess

\* the inputs of the registry operations
RegObjectHandle == <<HandleTypeTransient, 0>>

RegNVIndexHandle == <<HandleTypeNVIndex, 0>>

RegSessionHandle == <<HandleTypeHMACSession, 0>>

RegAuthValues == {NoAuth, <<1>>}

RegAttrs == {{}, {"AttrContinueSession"}}

\* what the TPM answers to ReadPublic and NVReadPublic: a public area and a
\* name, or an error
ReadOkResp(pub, name) == [err |-> NoError, pub |-> pub, name |-> name]

ReadErrResp(err) == [err |-> err, pub |-> Nil, name |-> <<>>]

ReadPublicResponses ==
    {ReadOkResp(PubA, PublicName(PubA).name),
     ReadOkResp(PubA, PutUint32(RegObjectHandle)),
     ReadOkResp(PubNoName, PublicName(PubA).name),
     ReadErrResp(TPMWarning("ReadPublic", WarningReferenceH0)),
     ReadErrResp(TPMHandleError("ReadPublic", ErrorHandle, 1)),
     ReadErrResp(TPMError("ReadPublic", ErrorValue))}

NVReadPublicResponses ==
    {ReadOkResp(NVPubA, NVPublicName(NVPubA).name),
     ReadOkResp(NVPubA, NVPublicName(NVPubOther).name),
     ReadOkResp(NVPubOther, NVPublicName(NVPubOther).name),
     ReadOkResp(NVPubNoName, NVPublicName(NVPubA).name),
     ReadErrResp(TPMWarning("NVReadPublic", WarningReferenceH0)),
     ReadErrResp(TPMHandleError("NVReadPublic", ErrorHandle, 1))}

ResponsesFor(handle) ==
    IF HandleType(handle) = HandleTypeNVIndex THEN NVReadPublicResponses
    ELSE ReadPublicResponses

\* how the TPM answers a command
Outcomes == {"success", "tpm_error"}

\* the slots of the heap not yet allocated, and the one a new context gets
Free(hp) == {i \in DOMAIN hp : hp[i] = Nil}

NewId(hp) == CHOOSE i \in Free(hp) : \A j \in Free(hp) : i <= j

\* the session wrappers that share the handleContext c
WrappersOf(ss, c) == {s \in DOMAIN ss : ss[s] # Nil /\ ss[s].hc = c}

IsResource(c) ==
    c.Type \in {handleContextTypePermanent, handleContextTypeObject, handleContextTypeNvIndex}

Init ==
    /\ heap = [i \in CtxIds |-> Nil]
    /\ sessions = [i \in SessIds |-> Nil]
    /\ permanentResources = [h \in PermanentHandles |-> 0]
    /\ wire = Nil
    /\ last = [op |-> "none"]
    /\ ops = 0
    /\ bctx = Nil
    /\ blob = <<>>
    /\ bkind = "none"
    /\ out = NoOut
    /\ tcti = <<>>
    /\ run = Nil
    /\ mu = Nil
    /\ dec = Nil
    /\ chg = Nil

\* TPMContext.GetPermanentContext: the context interned for the handle, made
\* and interned at the first request; pr is t.permanentResources
GetPermanentContext(pr, hp, handle) ==
    IF pr[handle] # 0 THEN [pr |-> pr, heap |-> hp, ret |-> pr[handle]]
    ELSE [pr |-> [pr EXCEPT ![handle] = NewId(hp)],
          heap |-> [hp EXCEPT ![NewId(hp)] = makePermanentContext(handle)],
          ret |-> NewId(hp)]

RegGetPermanentContext ==
    \E handle \in PermanentHandles :
        /\ ops < MaxOps
        /\ ops' = ops + 1
        /\ permanentResources[handle] # 0 \/ Free(heap) # {}
        /\ permanentResources' = GetPermanentContext(permanentResources, heap, handle).pr
        /\ heap' = GetPermanentContext(permanentResources, heap, handle).heap
        /\ last' = [op |-> "GetPermanentContext", handle |-> handle,
                    ret |-> GetPermanentContext(permanentResources, heap, handle).ret]
        /\ wire' = Nil
        /\ UNCHANGED sessions
        /\ UNCHANGED <<blobvars, pipevars, muvars, errvars, authvars>>

\* the heap after a constructor returned r: a new slot holds the context
Allocated(hp, r) == IF r.err = NoError THEN [hp EXCEPT ![NewId(hp)] = r.ctx] ELSE hp

\* the slot of the context a constructor returned, 0 if it returned none
AllocatedId(hp, r) == IF r.err = NoError THEN NewId(hp) ELSE 0

RegCreateObjectFromPublic ==
    /\ ops < MaxOps
    /\ ops' = ops + 1
    /\ Free(heap) # {}
    /\ heap' = Allocated(heap, CreateObjectResourceContextFromPublic(RegObjectHandle, PubA))
    /\ last' = [op |-> "CreateObjectResourceContextFromPublic",
                err |-> ErrText(CreateObjectResourceContextFromPublic(RegObjectHandle, PubA).err),
                ret |-> AllocatedId(heap,
                           CreateObjectResourceContextFromPublic(RegObjectHandle, PubA))]
    /\ wire' = Nil
    /\ UNCHANGED <<sessions, permanentResources>>
    /\ UNCHANGED <<blobvars, pipevars, muvars, errvars, authvars>>

RegCreateNVIndexFromPublic ==
    /\ ops < MaxOps
    /\ ops' = ops + 1
    /\ Free(heap) # {}
    /\ heap' = Allocated(heap, CreateNVIndexResourceContextFromPublic(NVPubA))
    /\ last' = [op |-> "CreateNVIndexResourceContextFromPublic",
                err |-> ErrText(CreateNVIndexResourceContextFromPublic(NVPubA).err),
                ret |-> AllocatedId(heap, CreateNVIndexResourceContextFromPublic(NVPubA))]
    /\ wire' = Nil
    /\ UNCHANGED <<sessions, permanentResources>>
    /\ UNCHANGED <<blobvars, pipevars, muvars, errvars, authvars>>

\* a session context that the session engine accepts in a command: not
\* invalidated, and complete
SessionUsable(c) == c.H # HandleUnassigned /\ c.Data # Nil

\* the session arguments a command can be given: none (0) or a wrapper
SessionArgs == {0} \cup {s \in SessIds : sessions[s] # Nil}

\* the nonce the TPM returns for a session in the response of a command
ResponseNonce == Fill(32, 5)

\* processAuthResponseArea, as far as the registry sees it: a session used
\* with the continue-session attribute takes the nonce of the response into
\* its session data, a session used without it is invalidated
SessionAfterResponse(hp, ss, s) ==
    IF s = 0 THEN hp
    ELSE IF "attrContinueSession" \in tpmAttrs(ss[s].attrs)
    THEN [hp EXCEPT ![ss[s].hc].Data.NonceTPM = ResponseNonce]
    ELSE [hp EXCEPT ![ss[s].hc] = Invalidate(@)]

\* the error RunCommandBytes returns for the response of the TPM
OutcomeError(outcome) == IF outcome = "success" THEN "" ELSE "TPMError"

\* tpmImpl.RunCommand after the command was written: an error of
\* RunCommandAndReturnRawResponse is returned as it is, and only a
\* successful response reaches ProcessResponse and its session processing
RunCommandResponse(hp, ss, s, outcome) ==
    IF outcome # "success" THEN hp ELSE SessionAfterResponse(hp, ss, s)

\* the command RunCommandAndReturnRawResponse writes: the handle of every
\* resource context of the handle area, as rc.Handle() gives it
Written(code, c, s) == [code |-> code, handles |-> <<c.H>>, sessions |-> s # 0]

\* tpmImpl.RunCommand(commandCode, rc, Separator, ..., session): a command
\* with one resource context in its handle area and at most one session
RegRunCommand ==
    \E c \in CtxIds, s \in SessionArgs, outcome \in Outcomes :
        /\ ops < MaxOps
        /\ ops' = ops + 1
        /\ heap[c] # Nil
        /\ IsResource(heap[c])
        /\ IF s # 0 /\ ~SessionUsable(heap[sessions[s].hc])
           THEN /\ wire' = Nil
                /\ heap' = heap
                /\ last' = [op |-> "RunCommand", s |-> s, err |-> "ProgrammerError",
                            hpre |-> heap[c].H, outcome |-> "none"]
           ELSE /\ wire' = Written("Command", heap[c], s)
                /\ heap' = RunCommandResponse(heap, sessions, s, outcome)
                /\ last' = [op |-> "RunCommand", s |-> s, err |-> OutcomeError(outcome),
                            hpre |-> heap[c].H, outcome |-> outcome]
        /\ UNCHANGED <<sessions, permanentResources>>
        /\ UNCHANGED <<blobvars, pipevars, muvars, errvars, authvars>>

\* checkResourceContextParam: a context whose handle is unassigned is
\* refused before anything is sent
checkResourceContextParam(c) ==
    IF c.H = HandleUnassigned THEN "ProgrammerError" ELSE ""

\* tpmContext.NVReadPublic(nvIndex)
RegNVReadPublic ==
    \E c \in CtxIds, outcome \in Outcomes :
        /\ ops < MaxOps
        /\ ops' = ops + 1
        /\ heap[c] # Nil
        /\ IsResource(heap[c])
        /\ IF checkResourceContextParam(heap[c]) # ""
           THEN /\ wire' = Nil
                /\ last' = [op |-> "NVReadPublic", c |-> c,
                            err |-> checkResourceContextParam(heap[c]),
                            hpre |-> heap[c].H, outcome |-> "none"]
           ELSE /\ wire' = Written("NVReadPublic", heap[c], 0)
                /\ last' = [op |-> "NVReadPublic", c |-> c,
                            err |-> OutcomeError(outcome),
                            hpre |-> heap[c].H, outcome |-> outcome]
        /\ UNCHANGED <<heap, sessions, permanentResources>>
        /\ UNCHANGED <<blobvars, pipevars, muvars, errvars, authvars>>

\* FlushContext(flushContext): the context is checked, the command is run
\* and, when it succeeded, the context is invalidated
RegFlushContext ==
    \E c \in CtxIds, outcome \in Outcomes :
        /\ ops < MaxOps
        /\ ops' = ops + 1
        /\ heap[c] # Nil
        /\ IF checkResourceContextParam(heap[c]) # ""
           THEN /\ wire' = Nil
                /\ heap' = heap
                /\ last' = [op |-> "FlushContext", c |-> c,
                            err |-> checkResourceContextParam(heap[c]),
                            hpre |-> heap[c].H, outcome |-> "none"]
           ELSE /\ wire' = Written("FlushContext", heap[c], 0)
                /\ heap' = IF outcome = "success" THEN [heap EXCEPT ![c] = Invalidate(@)]
                           ELSE heap
                /\ last' = [op |-> "FlushContext", c |-> c,
                            err |-> OutcomeError(outcome),
                            hpre |-> heap[c].H, outcome |-> outcome]
        /\ UNCHANGED <<sessions, permanentResources>>
        /\ UNCHANGED <<blobvars, pipevars, muvars, errvars, authvars>>

\* the kind of an error, "" for no error
ErrKind(e) == IF e = NoError THEN "" ELSE e.kind

\* the name the TPM returned in the last read CreateResourceContextFromTPM
\* made
LastName(r, resp1, resp2) == IF r.reads = 2 THEN resp2.name ELSE resp1.name

\* what CreateResourceContextFromTPM returned
FromTPMReturned(hp, handle, s, r, resp1, resp2) ==
    [op |-> "CreateResourceContextFromTPM", err |-> ErrKind(r.err),
     ret |-> AllocatedId(hp, r), handle |-> handle, reads |-> r.reads,
     name |-> IF r.err = NoError THEN LastName(r, resp1, resp2) ELSE <<>>,
     none |-> r.ctx = Nil, s |-> s, log |-> r.log,
     resps |-> SubSeq(<<resp1, resp2>>, 1, r.reads),
     unavailable |-> IF ErrKind(r.err) = "ResourceUnavailableError" THEN r.err.Handle
                     ELSE HandleUnassigned]

\* the heap after CreateResourceContextFromTPM returned r: the new context,
\* and the session as the second read, if it succeeded, left it
FromTPMHeap(hp, ss, s, r, resp2) ==
    IF r.reads = 2 /\ resp2.err = NoError
    THEN SessionAfterResponse(Allocated(hp, r), ss, s)
    ELSE Allocated(hp, r)

\* the last command CreateResourceContextFromTPM wrote: a read of the
\* public area of the handle, the second one with the sessions
FromTPMWritten(handle, r) ==
    [code |-> IF HandleType(handle) = HandleTypeNVIndex THEN "NVReadPublic"
              ELSE "ReadPublic",
     handles |-> <<handle>>, sessions |-> r.reads = 2]

\* TPMContext.CreateResourceContextFromTPM(handle, sessions...); a session
\* passed to it is one the session engine accepts
RegCreateResourceContextFromTPM ==
    \E handle \in {RegObjectHandle, RegNVIndexHandle}, s \in SessionArgs :
        \E resp1 \in ResponsesFor(handle), resp2 \in ResponsesFor(handle) :
            /\ ops < MaxOps
            /\ ops' = ops + 1
            /\ Free(heap) # {}
            /\ s = 0 => resp2 = resp1
            /\ s # 0 => SessionUsable(heap[sessions[s].hc])
            /\ heap' = FromTPMHeap(heap, sessions, s,
                           CreateResourceContextFromTPM(handle, IF s = 0 THEN 0 ELSE 1,
                                                        resp1, resp2), resp2)
            /\ last' = FromTPMReturned(heap, handle, s,
                           CreateResourceContextFromTPM(handle, IF s = 0 THEN 0 ELSE 1,
                                                        resp1, resp2), resp1, resp2)
            /\ wire' = FromTPMWritten(handle,
                           CreateResourceContextFromTPM(handle, IF s = 0 THEN 0 ELSE 1,
                                                        resp1, resp2))
            /\ UNCHANGED <<sessions, permanentResources>>
            /\ UNCHANGED <<blobvars, pipevars, muvars, errvars, authvars>>

FreeSess(ss) == {i \in DOMAIN ss : ss[i] = Nil}

NewSess(ss) == CHOOSE i \in FreeSess(ss) : \A j \in FreeSess(ss) : i <= j

\* StartAuthSession, when the TPM started the session: a new
\* sessionContext, its handleContext in the heap and the wrapper that
\* points to it, without attributes
RegStartAuthSession ==
    /\ ops < MaxOps
    /\ ops' = ops + 1
    /\ Free(heap) # {}
    /\ FreeSess(sessions) # {}
    /\ heap' = [heap EXCEPT ![NewId(heap)] = makeSessionContext(RegSessionHandle, SessDataA)]
    /\ sessions' = [sessions EXCEPT ![NewSess(sessions)] = [hc |-> NewId(heap), attrs |-> {}]]
    /\ last' = [op |-> "StartAuthSession", ret |-> NewSess(sessions)]
    /\ wire' = [code |-> "StartAuthSession", handles |-> <<>>, sessions |-> FALSE]
    /\ UNCHANGED permanentResources
    /\ UNCHANGED <<blobvars, pipevars, muvars, errvars, authvars>>

\* sessionContext.SetAttrs
RegSetAttrs ==
    \E s \in SessIds, attrs \in RegAttrs :
        /\ ops < MaxOps
        /\ ops' = ops + 1
        /\ sessions[s] # Nil
        /\ sessions' = [sessions EXCEPT ![s].attrs = attrs]
        /\ last' = [op |-> "SetAttrs", s |-> s]
        /\ wire' = Nil
        /\ UNCHANGED <<heap, permanentResources>>
        /\ UNCHANGED <<blobvars, pipevars, muvars, errvars, authvars>>

\* a faulty WithAttrs, which wraps a copy of the handleContext instead of
\* the handleContext of its receiver
RegWithAttrsOfCopy ==
    \E s \in SessIds, attrs \in RegAttrs :
        /\ ops < MaxOps
        /\ ops' = ops + 1
        /\ sessions[s] # Nil
        /\ FreeSess(sessions) # {}
        /\ Free(heap) # {}
        /\ heap' = [heap EXCEPT ![NewId(heap)] = heap[sessions[s].hc]]
        /\ sessions' = [sessions EXCEPT ![NewSess(sessions)] =
                            [hc |-> NewId(heap), attrs |-> attrs]]
        /\ last' = [op |-> "WithAttrs", s |-> s, attrs |-> attrs,
                    ret |-> NewSess(sessions)]
        /\ wire' = Nil
        /\ UNCHANGED permanentResources
        /\ UNCHANGED <<blobvars, pipevars, muvars, errvars, authvars>>

\* sessionContext.WithAttrs: a new wrapper of the same handleContext
RegWithAttrs ==
    \E s \in SessIds, attrs \in RegAttrs :
        /\ ops < MaxOps
        /\ ops' = ops + 1
        /\ sessions[s] # Nil
        /\ FreeSess(sessions) # {}
        /\ sessions' = [sessions EXCEPT ![NewSess(sessions)] =
                            [hc |-> sessions[s].hc, attrs |-> attrs]]
        /\ last' = [op |-> "WithAttrs", s |-> s, attrs |-> attrs,
                    ret |-> NewSess(sessions)]
        /\ wire' = Nil
        /\ UNCHANGED <<heap, permanentResources>>
        /\ UNCHANGED <<blobvars, pipevars, muvars, errvars, authvars>>

\* sessionContext.IncludeAttrs: a new wrapper of the same handleContext
RegIncludeAttrs ==
    \E s \in SessIds, attrs \in RegAttrs \ {{}} :
        /\ ops < MaxOps
        /\ ops' = ops + 1
        /\ sessions[s] # Nil
        /\ FreeSess(sessions) # {}
        /\ sessions' = [sessions EXCEPT ![NewSess(sessions)] =
                            [hc |-> sessions[s].hc, attrs |-> sessions[s].attrs \cup attrs]]
        /\ last' = [op |-> "IncludeAttrs", s |-> s, attrs |-> attrs,
                    ret |-> NewSess(sessions)]
        /\ wire' = Nil
        /\ UNCHANGED <<heap, permanentResources>>
        /\ UNCHANGED <<blobvars, pipevars, muvars, errvars, authvars>>

\* sessionContext.ExcludeAttrs: a new wrapper of the same handleContext
RegExcludeAttrs ==
    \E s \in SessIds, attrs \in RegAttrs \ {{}} :
        /\ ops < MaxOps
        /\ ops' = ops + 1
        /\ sessions[s] # Nil
        /\ FreeSess(sessions) # {}
        /\ sessions' = [sessions EXCEPT ![NewSess(sessions)] =
                            [hc |-> sessions[s].hc, attrs |-> sessions[s].attrs \ attrs]]
        /\ last' = [op |-> "ExcludeAttrs", s |-> s, attrs |-> attrs,
                    ret |-> NewSess(sessions)]
        /\ wire' = Nil
        /\ UNCHANGED <<heap, permanentResources>>
        /\ UNCHANGED <<blobvars, pipevars, muvars, errvars, authvars>>

\* resourceContext.SetAuthValue
RegSetAuthValue ==
    \E c \in CtxIds, v \in RegAuthValues :
        /\ ops < MaxOps
        /\ ops' = ops + 1
        /\ heap[c] # Nil
        /\ IsResource(heap[c])
        /\ heap' = [heap EXCEPT ![c] = SetAuthValue(@, v)]
        /\ last' = [op |-> "SetAuthValue", c |-> c]
        /\ wire' = Nil
        /\ UNCHANGED <<sessions, permanentResources>>
        /\ UNCHANGED <<blobvars, pipevars, muvars, errvars, authvars>>

\* HandleContext.SerializeToBytes of a context of the registry
RegSerializeToBytes ==
    \E c \in CtxIds :
        /\ ops < MaxOps
        /\ ops' = ops + 1
        /\ heap[c] # Nil
        /\ last' = [op |-> "SerializeToBytes", c |-> c,
                    err |-> IF SerializeToBytes(heap[c]).ok THEN "" ELSE "panic"]
        /\ wire' = Nil
        /\ UNCHANGED <<heap, sessions, permanentResources>>
        /\ UNCHANGED <<blobvars, pipevars, muvars, errvars, authvars>>

Next ==
    \/ RegGetPermanentContext
    \/ RegCreateObjectFromPublic
    \/ RegCreateNVIndexFromPublic
    \/ RegCreateResourceContextFromTPM
    \/ RegStartAuthSession
    \/ RegSetAttrs
    \/ RegWithAttrs
    \/ RegIncludeAttrs
    \/ RegExcludeAttrs
    \/ RegSetAuthValue
    \/ RegSerializeToBytes
    \/ RegRunCommand
    \/ RegNVReadPublic
    \/ RegFlushContext

Spec == Init /\ [][Next]_vars

\* ------------------------------------------------------------------------
\* Properties of the registry and of the command pipeline
\* ------------------------------------------------------------------------

\* the operations that send a command with a context in the handle area
CommandOps == {"RunCommand", "NVReadPublic", "FlushContext"}

\* C1: a command that is given an invalidated context (its handle is the
\* unassigned value) as a handle argument returns a programmer error and
\* writes nothing to the transport: no command that carries the unassigned
\* handle is ever written
C1_UnassignedContextRefused ==
    /\ (last.op \in CommandOps /\ last.hpre = HandleUnassigned)
           => (last.err = "ProgrammerError" /\ wire = Nil)
    /\ wire # Nil => \A i \in DOMAIN wire.handles : wire.handles[i] # HandleUnassigned

\* the case of C1: a command was given an invalidated context
C1_Case == last.op \in CommandOps /\ last.hpre = HandleUnassigned

\* C2: invalidating an Object, NV index or Session context sets its handle
\* to the unassigned value and its name to the 4-byte big-endian encoding of
\* that value, and no later operation gives the context a handle other than
\* the unassigned one
C2_InvalidatedStaysUnassigned ==
    [][\A c \in CtxIds :
          /\ (heap[c] # Nil /\ heap[c].H = HandleUnassigned)
                 => /\ heap'[c].H = HandleUnassigned
                    /\ heap'[c].N = <<64, 0, 0, 8>>
                    /\ Invalidate(heap'[c]) = heap'[c]
          /\ (/\ last'.op = "FlushContext"
              /\ last'.err = ""
              /\ last'.c = c
              /\ heap[c].Type # handleContextTypePermanent)
                 => (heap'[c].H = HandleUnassigned /\ heap'[c].N = <<64, 0, 0, 8>>)
          /\ (/\ last'.op = "RunCommand"
              /\ last'.err = ""
              /\ last'.s # 0
              /\ sessions[last'.s].hc = c
              /\ "AttrContinueSession" \notin sessions[last'.s].attrs)
                 => (heap'[c].H = HandleUnassigned /\ heap'[c].N = <<64, 0, 0, 8>>)]_vars

\* an operation of C2 was applied to a context after its invalidation
C2_Witness ==
    \/ /\ last.op = "SetAuthValue"
       /\ heap[last.c].H = HandleUnassigned
       /\ heap[last.c].authValue # NoAuth
    \/ /\ last.op \in {"SetAttrs", "WithAttrs", "IncludeAttrs", "ExcludeAttrs"}
       /\ heap[sessions[last.s].hc].H = HandleUnassigned

\* C3: a session used in a command without the continue-session attribute
\* is invalidated when the response processing of the command ends, whether
\* the command succeeded or failed; used with continue-session it stays
\* valid after a successful command
C3_SessionInvalidatedAfterResponse ==
    (last.op = "RunCommand" /\ last.s # 0 /\ wire # Nil)
        => IF "AttrContinueSession" \in sessions[last.s].attrs
           THEN last.outcome = "success"
                    => heap[sessions[last.s].hc].H = RegSessionHandle
           ELSE heap[sessions[last.s].hc].H = HandleUnassigned

\* the case of C3 that fails: the TPM answered a command that used a
\* session without continue-session with an error
C3_Case ==
    /\ last.op = "RunCommand"
    /\ last.s # 0
    /\ wire # Nil
    /\ last.outcome = "tpm_error"
    /\ "AttrContinueSession" \notin sessions[last.s].attrs

\* C8: GetPermanentContext returns the same context for every call with the
\* same handle, and a permanent context is never invalidated: whatever is
\* applied to it, its handle is the one it was made for and its name the
\* big-endian encoding of that handle
C8_PermanentContextInterned ==
    [][\A h \in PermanentHandles :
          /\ permanentResources[h] # 0 => permanentResources'[h] = permanentResources[h]
          /\ permanentResources'[h] # 0
                 => /\ heap'[permanentResources'[h]].Type = handleContextTypePermanent
                    /\ heap'[permanentResources'[h]].H = h
                    /\ heap'[permanentResources'[h]].N = PutUint32(h)
          /\ (last'.op = "GetPermanentContext" /\ last'.handle = h)
                 => (last'.ret # 0 /\ last'.ret = permanentResources'[h])]_vars

\* a repeated GetPermanentContext returned the context whose authorization
\* value was set through the reference an earlier call returned
C8_Witness ==
    /\ last.op = "GetPermanentContext"
    /\ last.ret = permanentResources[last.handle]
    /\ heap[last.ret].authValue # NoAuth

\* the name computed from the public area a resource context holds
ComputedName(c) ==
    IF c.Type = handleContextTypeNvIndex THEN NVPublicName(c.Data) ELSE PublicName(c.Data)

\* C9: CreateResourceContextFromTPM never returns a Dummy context: on
\* success it returns an Object or NV index context whose public area has
\* the name the TPM returned (and, for an NV index, the requested index),
\* and on an error it returns no context
C9_FromTPMNeverDummy ==
    /\ \A c \in CtxIds : heap[c] # Nil => heap[c].Type # handleContextTypeDummy
    /\ last.op = "CreateResourceContextFromTPM"
           => IF last.err = ""
              THEN /\ last.ret # 0
                   /\ ~last.none
                   /\ heap[last.ret].Type \in {handleContextTypeObject, handleContextTypeNvIndex}
                   /\ heap[last.ret].H = last.handle
                   /\ heap[last.ret].N = last.name
                   /\ ComputedName(heap[last.ret]).ok
                   /\ ComputedName(heap[last.ret]).name = last.name
                   /\ heap[last.ret].Type = handleContextTypeNvIndex
                          => heap[last.ret].Data.Index = last.handle
              ELSE last.ret = 0 /\ last.none

\* CreateResourceContextFromTPM returned a context after the second read,
\* the one made with the sessions
C9_Witness ==
    /\ last.op = "CreateResourceContextFromTPM"
    /\ last.err = ""
    /\ last.reads = 2
    /\ heap[last.ret].Type = handleContextTypeNvIndex

\* ------------------------------------------------------------------------
\* The command facades that change the registry (cmds_hierarchy.go, NV
\* commands)
\* ------------------------------------------------------------------------

\* the bits of NVAttributes (TPMA_NV) the facades test and set
AttrNV ==
    [WriteLocked |-> 11, GlobalLock |-> 15, ReadLocked |-> 28, Written |-> 29,
     PlatformCreate |-> 30]

\* a faulty SetAttr that leaves the name of the context as it was
nvIndexContext_SetAttrKeepsName(c, a) == [c EXCEPT !.Data.Attrs = @ \cup {a}]

\* nvIndexContext.SetAttr: set the bit and take the name of the updated
\* public area; Name() gives no name when it fails
nvIndexContext_SetAttr(c, a) ==
    [c EXCEPT !.Data.Attrs = @ \cup {a},
              !.N = NVPublicName([c.Data EXCEPT !.Attrs = @ \cup {a}]).name]

\* nvIndexContext.ClearAttr
nvIndexContext_ClearAttr(c, a) ==
    [c EXCEPT !.Data.Attrs = @ \ {a},
              !.N = NVPublicName([c.Data EXCEPT !.Attrs = @ \ {a}]).name]

\* the contexts t.resources holds: object, NV index and session contexts
\* that were not evicted
InRegistry(c) ==
    /\ c # Nil
    /\ c.Type \in {handleContextTypeObject, handleContextTypeNvIndex, handleContextTypeSession}
    /\ c.H # HandleUnassigned

\* evictResourceContext: the context leaves t.resources and is invalidated
evictResourceContext(c) == Invalidate(c)

\* a faulty RunCommand that hands the response to the caller whatever the
\* response code is
RunCommandOutputsAlways(outcome, resp) == [err |-> OutcomeError(outcome), outs |-> resp]

\* tpmImpl.RunCommand as a facade sees it: the error of the command, and the
\* response handles and parameters, which ProcessResponse unmarshals only
\* when RunCommandAndReturnRawResponse returned no error
RunCommandOutputs(outcome, resp) ==
    IF OutcomeError(outcome) # "" THEN [err |-> OutcomeError(outcome), outs |-> Nil]
    ELSE [err |-> "", outs |-> resp]

\* a faulty test of Clear that spares no NV index
ClearEvictsPlatformNV(c, handles) ==
    CASE c.Type = handleContextTypeObject -> c.H \notin handles
      [] c.Type = handleContextTypeNvIndex -> TRUE
      [] c.Type = handleContextTypeSession -> FALSE
      [] OTHER -> TRUE

\* the switch in the loop of Clear: handles are the transient and persistent
\* handles the TPM reports after the clear
ClearEvicts(c, handles) ==
    CASE c.Type = handleContextTypeObject -> c.H \notin handles
      [] c.Type = handleContextTypeNvIndex -> AttrNV.PlatformCreate \notin c.Data.Attrs
      [] c.Type = handleContextTypeSession -> FALSE
      [] OTHER -> TRUE

\* a faulty Clear that evicts the contexts before it asks the TPM for the
\* handles that are left
ClearEvictsBeforeQuery(hp, outcome, capOk, handles) ==
    IF RunCommandOutputs(outcome, Nil).err # ""
    THEN [err |-> RunCommandOutputs(outcome, Nil).err, heap |-> hp]
    ELSE [err |-> IF capOk THEN "" ELSE "cannot fetch handles from TPM after clear",
          heap |-> [i \in DOMAIN hp |->
                       IF InRegistry(hp[i]) /\ ClearEvicts(hp[i], handles)
                       THEN evictResourceContext(hp[i]) ELSE hp[i]]]

\* TPMContext.Clear: outcome is the answer to TPM2_Clear, capOk whether both
\* GetCapabilityHandles calls succeeded
Clear(hp, outcome, capOk, handles) ==
    IF RunCommandOutputs(outcome, Nil).err # ""
    THEN [err |-> RunCommandOutputs(outcome, Nil).err, heap |-> hp]
    ELSE IF ~capOk
    THEN [err |-> "cannot fetch handles from TPM after clear", heap |-> hp]
    ELSE [err |-> "",
          heap |-> [i \in DOMAIN hp |->
                       IF InRegistry(hp[i]) /\ ClearEvicts(hp[i], handles)
                       THEN evictResourceContext(hp[i]) ELSE hp[i]]]

\* a faulty NVGlobalWriteLock that locks every NV index
NVGlobalWriteLockEveryIndex(hp, outcome) ==
    IF RunCommandOutputs(outcome, Nil).err # "" THEN hp
    ELSE [i \in DOMAIN hp |->
             IF InRegistry(hp[i]) /\ hp[i].Type = handleContextTypeNvIndex
             THEN nvIndexContext_SetAttr(hp[i], AttrNV.WriteLocked)
             ELSE hp[i]]

\* tpmContext.NVGlobalWriteLock: the registry after the command
NVGlobalWriteLock(hp, outcome) ==
    IF RunCommandOutputs(outcome, Nil).err # "" THEN hp
    ELSE [i \in DOMAIN hp |->
             IF /\ InRegistry(hp[i])
                /\ hp[i].Type = handleContextTypeNvIndex
                /\ AttrNV.GlobalLock \in hp[i].Data.Attrs
             THEN nvIndexContext_SetAttr(hp[i], AttrNV.WriteLocked)
             ELSE hp[i]]

\* a faulty facade that sets the attribute whatever the TPM answered
NVSetAttrAlways(hp, c, a, outcome) == [hp EXCEPT ![c] = nvIndexContext_SetAttr(@, a)]

\* tpmContext.NVWrite, NVIncrement, NVExtend, NVSetBits (a = written),
\* NVWriteLock and NVReadLock: the attribute is set after a successful
\* command
NVSetAttrAfter(hp, c, a, outcome) ==
    IF RunCommandOutputs(outcome, Nil).err # "" THEN hp
    ELSE [hp EXCEPT ![c] = nvIndexContext_SetAttr(@, a)]

\* tpmContext.NVUndefineSpace and NVUndefineSpaceSpecial: the context is
\* evicted after a successful command
NVUndefineSpace(hp, c, outcome) ==
    IF RunCommandOutputs(outcome, Nil).err # "" THEN hp
    ELSE [hp EXCEPT ![c] = evictResourceContext(@)]

\* TPMContext.CreatePrimary: the context made of the handle, the public area
\* and the name of the response, added to the registry
CreatePrimary(outcome, resp) ==
    IF RunCommandOutputs(outcome, resp).err # ""
    THEN Failed(PlainError(RunCommandOutputs(outcome, resp).err))
    ELSE Made(makeObjectContext(RunCommandOutputs(outcome, resp).outs.handle,
                                RunCommandOutputs(outcome, resp).outs.name,
                                RunCommandOutputs(outcome, resp).outs.pub))

\* the NV public areas of the facade model: with and without the
\* platform-created and the globally-lockable attribute
FacNVPublics ==
    {[NVPubA EXCEPT !.Attrs = a] :
        a \in {{1}, {1, AttrNV.PlatformCreate}, {1, AttrNV.GlobalLock},
               {1, AttrNV.GlobalLock, AttrNV.PlatformCreate}}}

\* what the TPM answers to CreatePrimary
CreatePrimaryResponse ==
    [handle |-> <<HandleTypeTransient, 2>>, pub |-> PubA, name |-> PublicName(PubA).name]

\* the handles the TPM can report after a clear
SurvivingHandles == SUBSET ObjectHandles

\* the NV commands that set the written attribute
NVWriteCommands == {"NVWrite", "NVIncrement", "NVExtend", "NVSetBits"}

\* CreateNVIndexResourceContextFromPublic(pub): an NV index context enters
\* the registry
FacCreateNVIndex ==
    \E pub \in FacNVPublics :
        /\ ops < MaxOps
        /\ ops' = ops + 1
        /\ Free(heap) # {}
        /\ heap' = Allocated(heap, CreateNVIndexResourceContextFromPublic(pub))
        /\ last' = [op |-> "CreateNVIndexResourceContextFromPublic",
                    err |-> ErrText(CreateNVIndexResourceContextFromPublic(pub).err),
                    pre |-> heap]
        /\ wire' = Nil
        /\ UNCHANGED <<sessions, permanentResources>>
        /\ UNCHANGED <<blobvars, pipevars, muvars, errvars, authvars>>

\* CreateObjectResourceContextFromPublic(handle, pub): a transient or a
\* persistent object context enters the registry
FacCreateObject ==
    \E handle \in ObjectHandles :
        /\ ops < MaxOps
        /\ ops' = ops + 1
        /\ Free(heap) # {}
        /\ heap' = Allocated(heap, CreateObjectResourceContextFromPublic(handle, PubA))
        /\ last' = [op |-> "CreateObjectResourceContextFromPublic",
                    err |-> ErrText(CreateObjectResourceContextFromPublic(handle, PubA).err),
                    pre |-> heap]
        /\ wire' = Nil
        /\ UNCHANGED <<sessions, permanentResources>>
        /\ UNCHANGED <<blobvars, pipevars, muvars, errvars, authvars>>

\* TPMContext.CreatePrimary(primaryObject, ...)
FacCreatePrimary ==
    \E outcome \in Outcomes :
        /\ ops < MaxOps
        /\ ops' = ops + 1
        /\ Free(heap) # {}
        /\ heap' = Allocated(heap, CreatePrimary(outcome, CreatePrimaryResponse))
        /\ last' = [op |-> "CreatePrimary", outcome |-> outcome,
                    err |-> RunCommandOutputs(outcome, CreatePrimaryResponse).err,
                    outs |-> RunCommandOutputs(outcome, CreatePrimaryResponse).outs,
                    ret |-> AllocatedId(heap, CreatePrimary(outcome, CreatePrimaryResponse)),
                    pre |-> heap]
        /\ wire' = [code |-> "CreatePrimary", handles |-> <<HandleOwner>>, sessions |-> FALSE]
        /\ UNCHANGED <<sessions, permanentResources>>
        /\ UNCHANGED <<blobvars, pipevars, muvars, errvars, authvars>>

\* TPMContext.Clear(authHandle, authHandleAuth)
FacClear ==
    \E outcome \in Outcomes, capOk \in BOOLEAN, handles \in SurvivingHandles :
        /\ ops < MaxOps
        /\ ops' = ops + 1
        /\ (outcome # "success" \/ ~capOk) => handles = {}
        /\ outcome # "success" => capOk
        /\ heap' = Clear(heap, outcome, capOk, handles).heap
        /\ last' = [op |-> "Clear", outcome |-> outcome,
                    err |-> Clear(heap, outcome, capOk, handles).err,
                    handles |-> handles, pre |-> heap]
        /\ wire' = [code |-> "Clear", handles |-> <<HandleOwner>>, sessions |-> FALSE]
        /\ UNCHANGED <<sessions, permanentResources>>
        /\ UNCHANGED <<blobvars, pipevars, muvars, errvars, authvars>>

\* tpmContext.NVGlobalWriteLock(authHandle, authHandleAuth)
FacNVGlobalWriteLock ==
    \E outcome \in Outcomes :
        /\ ops < MaxOps
        /\ ops' = ops + 1
        /\ heap' = NVGlobalWriteLock(heap, outcome)
        /\ last' = [op |-> "NVGlobalWriteLock", outcome |-> outcome,
                    err |-> RunCommandOutputs(outcome, Nil).err, pre |-> heap]
        /\ wire' = [code |-> "NVGlobalWriteLock", handles |-> <<HandleOwner>>,
                    sessions |-> FALSE]
        /\ UNCHANGED <<sessions, permanentResources>>
        /\ UNCHANGED <<blobvars, pipevars, muvars, errvars, authvars>>

\* tpmContext.NVWrite, NVIncrement, NVExtend and NVSetBits on the NV index
\* context c
FacNVWrite ==
    \E c \in CtxIds, cmd \in NVWriteCommands, outcome \in Outcomes :
        /\ ops < MaxOps
        /\ ops' = ops + 1
        /\ InRegistry(heap[c])
        /\ heap[c].Type = handleContextTypeNvIndex
        /\ heap' = NVSetAttrAfter(heap, c, AttrNV.Written, outcome)
        /\ last' = [op |-> cmd, c |-> c, outcome |-> outcome,
                    err |-> RunCommandOutputs(outcome, Nil).err,
                    outs |-> RunCommandOutputs(outcome, Nil).outs, pre |-> heap]
        /\ wire' = Written(cmd, heap[c], 0)
        /\ UNCHANGED <<sessions, permanentResources>>
        /\ UNCHANGED <<blobvars, pipevars, muvars, errvars, authvars>>

\* tpmContext.NVWriteLock on the NV index context c
FacNVWriteLock ==
    \E c \in CtxIds, outcome \in Outcomes :
        /\ ops < MaxOps
        /\ ops' = ops + 1
        /\ InRegistry(heap[c])
        /\ heap[c].Type = handleContextTypeNvIndex
        /\ heap' = NVSetAttrAfter(heap, c, AttrNV.WriteLocked, outcome)
        /\ last' = [op |-> "NVWriteLock", c |-> c, outcome |-> outcome,
                    err |-> RunCommandOutputs(outcome, Nil).err,
                    outs |-> RunCommandOutputs(outcome, Nil).outs, pre |-> heap]
        /\ wire' = Written("NVWriteLock", heap[c], 0)
        /\ UNCHANGED <<sessions, permanentResources>>
        /\ UNCHANGED <<blobvars, pipevars, muvars, errvars, authvars>>

\* tpmContext.NVReadLock on the NV index context c
FacNVReadLock ==
    \E c \in CtxIds, outcome \in Outcomes :
        /\ ops < MaxOps
        /\ ops' = ops + 1
        /\ InRegistry(heap[c])
        /\ heap[c].Type = handleContextTypeNvIndex
        /\ heap' = NVSetAttrAfter(heap, c, AttrNV.ReadLocked, outcome)
        /\ last' = [op |-> "NVReadLock", c |-> c, outcome |-> outcome,
                    err |-> RunCommandOutputs(outcome, Nil).err,
                    outs |-> RunCommandOutputs(outcome, Nil).outs, pre |-> heap]
        /\ wire' = Written("NVReadLock", heap[c], 0)
        /\ UNCHANGED <<sessions, permanentResources>>
        /\ UNCHANGED <<blobvars, pipevars, muvars, errvars, authvars>>

\* tpmContext.NVUndefineSpace and NVUndefineSpaceSpecial on the NV index
\* context c
FacNVUndefineSpace ==
    \E c \in CtxIds, cmd \in {"NVUndefineSpace", "NVUndefineSpaceSpecial"},
       outcome \in Outcomes :
        /\ ops < MaxOps
        /\ ops' = ops + 1
        /\ InRegistry(heap[c])
        /\ heap[c].Type = handleContextTypeNvIndex
        /\ heap' = NVUndefineSpace(heap, c, outcome)
        /\ last' = [op |-> cmd, c |-> c, outcome |-> outcome,
                    err |-> RunCommandOutputs(outcome, Nil).err,
                    outs |-> RunCommandOutputs(outcome, Nil).outs, pre |-> heap]
        /\ wire' = Written(cmd, heap[c], 0)
        /\ UNCHANGED <<sessions, permanentResources>>
        /\ UNCHANGED <<blobvars, pipevars, muvars, errvars, authvars>>

\* nvIndexContext.SetAttr(a), called by the owner of the context
FacSetAttr ==
    \E c \in CtxIds, a \in {AttrNV.Written, AttrNV.GlobalLock} :
        /\ ops < MaxOps
        /\ ops' = ops + 1
        /\ InRegistry(heap[c])
        /\ heap[c].Type = handleContextTypeNvIndex
        /\ heap' = [heap EXCEPT ![c] = nvIndexContext_SetAttr(@, a)]
        /\ last' = [op |-> "SetAttr", c |-> c, err |-> "", pre |-> heap]
        /\ wire' = Nil
        /\ UNCHANGED <<sessions, permanentResources>>
        /\ UNCHANGED <<blobvars, pipevars, muvars, errvars, authvars>>

\* nvIndexContext.ClearAttr(a), called by the owner of the context
FacClearAttr ==
    \E c \in CtxIds, a \in {AttrNV.Written, AttrNV.WriteLocked} :
        /\ ops < MaxOps
        /\ ops' = ops + 1
        /\ InRegistry(heap[c])
        /\ heap[c].Type = handleContextTypeNvIndex
        /\ heap' = [heap EXCEPT ![c] = nvIndexContext_ClearAttr(@, a)]
        /\ last' = [op |-> "ClearAttr", c |-> c, err |-> "", pre |-> heap]
        /\ wire' = Nil
        /\ UNCHANGED <<sessions, permanentResources>>
        /\ UNCHANGED <<blobvars, pipevars, muvars, errvars, authvars>>

NextFacade ==
    \/ FacCreateNVIndex
    \/ FacCreateObject
    \/ RegStartAuthSession
    \/ FacCreatePrimary
    \/ FacClear
    \/ FacNVGlobalWriteLock
    \/ FacNVWrite
    \/ FacNVWriteLock
    \/ FacNVReadLock
    \/ FacNVUndefineSpace
    \/ FacSetAttr
    \/ FacClearAttr

SpecFacade == Init /\ [][NextFacade]_vars

\* ------------------------------------------------------------------------
\* Properties of the command facades
\* ------------------------------------------------------------------------

\* the context in slot c is as it was before the last operation
SameAsBefore(c) == heap[c] = last.pre[c]

\* the context in slot c was evicted by the last operation
EvictedNow(c) == heap[c].H = HandleUnassigned /\ heap[c].N = <<64, 0, 0, 8>>

AttrSetNow(c, a) ==
    /\ heap[c].Data = [last.pre[c].Data EXCEPT !.Attrs = @ \cup {a}]
    /\ NVPublicName(heap[c].Data).ok
    /\ heap[c].N = NVPublicName(heap[c].Data).name
    /\ heap[c].H = last.pre[c].H
    /\ heap[c].Type = last.pre[c].Type
    /\ heap[c].authValue = last.pre[c].authValue

C13_NVNameFollowsAttrs ==
    /\ last.op \in NVWriteCommands
           => IF last.err # "" THEN heap = last.pre
              ELSE /\ AttrSetNow(last.c, AttrNV.Written)
                   /\ \A c \in CtxIds \ {last.c} : SameAsBefore(c)
    /\ \A c \in CtxIds :
           (InRegistry(heap[c]) /\ heap[c].Type = handleContextTypeNvIndex)
               => /\ NVPublicName(heap[c].Data).ok
                  /\ heap[c].N = NVPublicName(heap[c].Data).name

\* a successful write set written on a context that did not have it
C13_Witness ==
    /\ last.op \in NVWriteCommands
    /\ last.err = ""
    /\ AttrNV.Written \notin last.pre[last.c].Data.Attrs
    /\ AttrNV.Written \in heap[last.c].Data.Attrs
    /\ heap[last.c].N # last.pre[last.c].N

\* the facade commands of the model
FacadeCommands ==
    NVWriteCommands \cup
    {"NVWriteLock", "NVReadLock", "NVUndefineSpace", "NVUndefineSpaceSpecial",
     "CreatePrimary", "Clear", "NVGlobalWriteLock"}

\* C14: when the TPM answers a command with a response code other than
\* Success the command returns the error, nothing of the response is handed
\* to the caller and the registry is unchanged: no context is evicted, no
\* attribute is changed and CreatePrimary adds no context
C14_FailedCommandChangesNothing ==
    (last.op \in FacadeCommands /\ last.outcome # "success")
        => /\ last.err # ""
           /\ heap = last.pre
           /\ last.op \notin {"Clear", "NVGlobalWriteLock"} => last.outs = Nil
           /\ last.op = "CreatePrimary" => last.ret = 0

\* the TPM refused NVUndefineSpace for a context that is still in the
\* registry
C14_Witness ==
    /\ last.op = "NVUndefineSpace"
    /\ last.outcome = "tpm_error"
    /\ InRegistry(heap[last.c])


\* ------------------------------------------------------------------------
\* The command pipeline on the wire (tpmImpl): RunCommand,
\* RunCommandAndReturnRawResponse, RunCommandBytes, ProcessResponse
\* ------------------------------------------------------------------------

\* TPM_ST_NO_SESSIONS and TPM_ST_SESSIONS
StructTag == [NoSessions |-> 32769, Sessions |-> 32770]

\* the size of the buffer RunCommandBytes reads the response into
maxCommandSize == 4096

\* binary.Write of a uint32
MarshalU32(n) ==
    <<(n \div 16777216) % 256, (n \div 65536) % 256, (n \div 256) % 256, n % 256>>

\* bit n of a response code
Bit(x, n) == (x \div (2 ^ n)) % 2

\* DecodeResponseCode: no error for Success (0), else the kind of the error
\* the format, version, vendor, severity, parameter, session and handle
\* bits of the response code select
DecodeResponseCode(resp) ==
    IF resp = 0 THEN ""
    ELSE IF Bit(resp, 7) = 0
    THEN IF Bit(resp, 8) = 0 THEN "TPM1Error"
         ELSE IF Bit(resp, 10) = 1 THEN "TPMVendorError"
         ELSE IF Bit(resp, 11) = 1 THEN "TPMWarning"
         ELSE "TPMError"
    ELSE IF Bit(resp, 6) = 1 THEN "TPMParameterError"
    ELSE IF Bit(resp, 11) = 1 THEN "TPMSessionError"
    ELSE IF (resp \div 256) % 8 > 0 THEN "TPMHandleError"
    ELSE "TPMError"

\* a faulty header whose size field counts the command bytes only
commandHeaderSizeOfBody(tag, commandCode, commandBytes) ==
    [Tag |-> tag, CommandSize |-> Len(commandBytes),
     CommandCode |-> commandCode]

\* commandHeader{tag, 0, commandCode} with CommandSize set to
\* uint32(binary.Size(cHeader) + len(commandBytes)); the header has 10 bytes,
\* and no command reaches the 2^32 bytes at which the conversion would wrap
commandHeader(tag, commandCode, commandBytes) ==
    [Tag |-> tag, CommandSize |-> 10 + Len(commandBytes),
     CommandCode |-> commandCode]

\* MarshalToBytes(cHeader): Tag, CommandSize, CommandCode
MarshalCommandHeader(h) ==
    MarshalU16(h.Tag) \o MarshalU32(h.CommandSize) \o MarshalU32(h.CommandCode)

\* responseHeader: Tag, ResponseSize, ResponseCode
responseHeaderFields == <<"u16", "u32", "u32">>

\* t.tpm.Write(data) and t.tpm.Read(buf) as entries of the transport log
WriteCall(data) == [call |-> "Write", data |-> data]

ReadCall(data) == [call |-> "Read", data |-> data]

\* the bytes Read leaves in responseBytes[:responseLen]: the buffer holds
\* maxCommandSize bytes
Received(response) ==
    IF Len(response) > maxCommandSize THEN SubSeq(response, 1, maxCommandSize)
    ELSE response

\* what RunCommandBytes and RunCommandAndReturnRawResponse return: the
\* response code, the response tag, the response bytes after the header
\* and the kind of the error; with calls, the calls made on the transport
Raw(code, tag, resp, err, calls) ==
    [code |-> code, tag |-> tag, resp |-> resp, err |-> err, calls |-> calls]

\* the end of RunCommandBytes, r the responseHeader unmarshalled from the
\* received bytes: an unmarshalling error, the decoded response code, or
\* the bytes that follow the header
RunCommandBytesResponse(r, calls) ==
    IF ~r.ok THEN Raw(0, 0, <<>>, "UnmarshallingError", calls)
    ELSE IF DecodeResponseCode(r.v[3]) # ""
    THEN Raw(r.v[3], r.v[1], <<>>, DecodeResponseCode(r.v[3]), calls)
    ELSE Raw(r.v[3], r.v[1], r.rest, "", calls)

\* a faulty exchange that reads the response of a command it failed to write
RunCommandBytesReadsAfterFailedWrite(data, io) ==
    IF io.readErr THEN Raw(0, 0, <<>>, "TPMReadError", <<WriteCall(data), ReadCall(<<>>)>>)
    ELSE RunCommandBytesResponse(
             unmarshalStruct(responseHeaderFields, Received(io.response), <<>>),
             <<WriteCall(data), ReadCall(Received(io.response))>>)

\* RunCommandBytes after the header was marshalled, data the header and the
\* command bytes: one Write, then one Read unless the Write failed
RunCommandBytesExchange(data, io) ==
    IF io.writeErr THEN Raw(0, 0, <<>>, "TPMWriteError", <<WriteCall(data)>>)
    ELSE IF io.readErr
    THEN Raw(0, 0, <<>>, "TPMReadError", <<WriteCall(data), ReadCall(<<>>)>>)
    ELSE RunCommandBytesResponse(
             unmarshalStruct(responseHeaderFields, Received(io.response), <<>>),
             <<WriteCall(data), ReadCall(Received(io.response))>>)

\* tpmImpl.RunCommandBytes; io is the transport's behaviour for this
\* command: whether Write fails, whether Read fails, the bytes Read returns
RunCommandBytes(tag, commandCode, commandBytes, io) ==
    RunCommandBytesExchange(
        MarshalCommandHeader(commandHeader(tag, commandCode, commandBytes)) \o commandBytes,
        io)


\* ------------------------------------------------------------------------
\* Marshalling of values by kind, and the top-level entry points of the
\* codec
\* ------------------------------------------------------------------------

MarshalFail == [ok |-> FALSE, b |-> <<>>]

MarshalOk(b) == [ok |-> TRUE, b |-> b]

RECURSIVE marshalValue(_, _)
RECURSIVE marshalElems(_, _, _)
RECURSIVE marshalSlice(_, _)
RECURSIVE marshalSized(_, _)
RECURSIVE marshalFields(_, _, _)
RECURSIVE marshalUnion(_, _)
RECURSIVE marshalTypedData(_, _)

\* the loop of marshalSlice: the elements in order after the size field
marshalElems(elem, s, acc) ==
    IF s = <<>> THEN MarshalOk(acc)
    ELSE IF ~marshalValue(elem, Head(s)).ok THEN MarshalFail
    ELSE marshalElems(elem, Tail(s), acc \o marshalValue(elem, Head(s)).b)

\* marshalSlice: uint16(len) before the bytes of a sized buffer, uint32(len)
\* before the elements of a list (here a list of uint16)
marshalSlice(kind, slice) ==
    IF kind = "sized" THEN MarshalOk(MarshalSizedBuffer(slice))
    ELSE IF kind = "unions" THEN marshalElems("union:slice", slice, MarshalU32(Len(slice)))
    ELSE marshalElems("u16", slice, MarshalU32(Len(slice)))

\* marshalSized: size 0 for a nil pointer, else the structure marshalled to
\* a temporary buffer after uint16 of its length
marshalSized(kind, s) ==
    IF s = Nil THEN MarshalOk(MarshalU16(0))
    ELSE IF ~marshalValue(kind, s).ok THEN MarshalFail
    ELSE MarshalOk(MarshalU16(Len(marshalValue(kind, s).b) % 65536) \o
                   marshalValue(kind, s).b)

\* marshalStruct: the fields in order, vals their values
marshalFields(fields, vals, acc) ==
    IF fields = <<>> THEN MarshalOk(acc)
    ELSE IF ~marshalValue(Head(fields), Head(vals)).ok THEN MarshalFail
    ELSE marshalFields(Tail(fields), Tail(vals),
                       acc \o marshalValue(Head(fields), Head(vals)).b)

\* marshalValue: one value of the named kind; a channel stands for the
\* kinds the codec refuses (array, chan, func, interface, map); "Raw" is a
\* structure of one RawBytes field, which marshalSlice writes as it is
marshalValue(kind, v) ==
    CASE kind = "u8" -> MarshalOk(MarshalU8(v))
      [] kind = "u16" -> MarshalOk(MarshalU16(v))
      [] kind = "u32" -> MarshalOk(MarshalU32(v))
      [] kind = "Handle" -> MarshalOk(PutUint32(v))
      [] kind = "sized" -> marshalSlice("sized", v)
      [] kind = "list" -> marshalSlice("list", v)
      [] kind = "SymDef" -> MarshalSymDef(v)
      [] kind = "sized:SymDef" -> marshalSized("SymDef", v)
      [] kind = "Raw" -> MarshalOk(v)
      [] kind = "sized:Raw" -> marshalSized("Raw", v)
      [] kind = "SizedSymDefAndTag" ->
           marshalFields(SizedSymDefAndTagFields, <<v.Sym, v.Tag>>, <<>>)
      [] kind = "union" -> marshalUnion(v, NoContainerCtx)
      [] kind = "union:slice" -> marshalUnion(v, SliceCtx)
      [] kind = "unions" -> marshalSlice("unions", v)
      [] kind = "TypedData" -> marshalTypedData(v, "Type")
      [] kind = "TypedDataNoSelector" -> marshalTypedData(v, "")
      [] kind = "TypedDataBadSelector" -> marshalTypedData(v, "Kind")
      [] OTHER -> MarshalFail

\* marshalUnion of a handleContextU: the checks of the context, then the
\* data of the type handleContextU.Select gives for the selector field of
\* the container; nothing is written when the checks or the selection
\* fail or when no type is selected
marshalUnion(u, ctx) ==
    IF unionContextError(ctx) # "" THEN MarshalFail
    ELSE MarshalHandleContextU([Type |-> ctx.container[ctx.selector], Data |-> u])

\* marshalStruct of a TypedData whose Data field has the given selector
\* option: the Type field, then the union
marshalTypedData(v, selector) ==
    IF ~marshalUnion(v.Data, StructCtx(selector, v)).ok THEN MarshalFail
    ELSE MarshalOk(MarshalU8(v.Type) \o marshalUnion(v.Data, StructCtx(selector, v)).b)

\* MarshalToWriter / MarshalToBytes: the values in order; no data is
\* returned when one of them fails
MarshalToBytes(kinds, vals) == marshalFields(kinds, vals, <<>>)

\* the destination of a top-level unmarshal: a nil slice or pointer, or one
\* the caller allocated
NilDest == [nil |-> TRUE]

AllocatedDest(v) == [nil |-> FALSE, v |-> v]

\* unmarshalValue of a top-level value into its destination
unmarshalInto(kind, b, dest) ==
    IF kind \in {"sized", "list"} THEN unmarshalSlice(kind, b, dest)
    ELSE IF kind = "SizedSymDefAndTag" /\ ~dest.nil
    THEN StructOf(unmarshalStruct(<<"sized:SymDef:allocated", "u8">>, b, <<>>),
                  SizedSymDefAndTagOf)
    ELSE unmarshalValue(kind, b, <<>>)

RECURSIVE UnmarshalFromReader(_, _, _, _)
RECURSIVE UnmarshalNext(_, _, _, _)

\* UnmarshalFromReader: the values in order into their destinations, acc
\* the values read so far
UnmarshalFromReader(kinds, dests, b, acc) ==
    IF kinds = <<>> THEN ReadOk(acc, b)
    ELSE UnmarshalNext(unmarshalInto(Head(kinds), b, Head(dests)),
                       Tail(kinds), Tail(dests), acc)

UnmarshalNext(r, kinds, dests, acc) ==
    IF ~r.ok THEN ReadFail
    ELSE UnmarshalFromReader(kinds, dests, r.rest, Append(acc, r.v))

\* the end of UnmarshalFromBytes, r what UnmarshalFromReader returned: the
\* error, or the number of bytes consumed from b, len(b) - buf.Len()
UnmarshalFromBytesResult(r, len) ==
    IF ~r.ok THEN [ok |-> FALSE, n |-> 0, v |-> <<>>]
    ELSE [ok |-> TRUE, n |-> len - Len(r.rest), v |-> r.v]

\* UnmarshalFromBytes
UnmarshalFromBytes(kinds, dests, b) ==
    UnmarshalFromBytesResult(UnmarshalFromReader(kinds, dests, b, <<>>), Len(b))


\* ------------------------------------------------------------------------
\* Commands: handle area, authorization area, parameter area
\* ------------------------------------------------------------------------

\* the partition loop of RunCommandAndReturnRawResponse refuses a command
\* handle parameter that is neither a ResourceContext nor a Handle
InvalidHandleParam(handles) == \E i \in 1..Len(handles) : handles[i].kind = "other"

\* chBytes: MarshalToBytes(commandHandles...), the Handle itself or the
\* Handle() of the ResourceContext
CommandHandleBytes(handles) ==
    MarshalToBytes([i \in 1..Len(handles) |-> "Handle"],
                   [i \in 1..Len(handles) |-> handles[i].h]).b

\* buildCommandAuthArea: one entry per session (session handle, caller nonce,
\* attributes, HMAC or password); an error for a session that cannot be used
buildCommandAuthArea(sessionParams) ==
    [ok |-> \A i \in 1..Len(sessionParams) : sessionParams[i].usable,
     area |-> [i \in 1..Len(sessionParams) |->
                  [SessionHandle |-> sessionParams[i].handle, Nonce |-> sessionParams[i].nonce,
                   SessionAttributes |-> sessionParams[i].attrs, HMAC |-> sessionParams[i].hmac]]]

RECURSIVE MarshalAuthCommands(_)

\* the entries of the authorization area: sessionHandle, nonce, attrs, hmac
MarshalAuthCommands(area) ==
    IF area = <<>> THEN <<>>
    ELSE PutUint32(Head(area).SessionHandle) \o MarshalSizedBuffer(Head(area).Nonce) \o
         MarshalU8(Head(area).SessionAttributes) \o MarshalSizedBuffer(Head(area).HMAC) \o
         MarshalAuthCommands(Tail(area))

\* MarshalToBytes(&authArea): authSize(u32), then the entries
MarshalAuthArea(area) ==
    MarshalU32(Len(MarshalAuthCommands(area))) \o MarshalAuthCommands(area)

\* caBytes: empty unless sessions are attached
CommandAuthBytes(sessionParams) ==
    IF Len(sessionParams) > 0 THEN MarshalAuthArea(buildCommandAuthArea(sessionParams).area)
    ELSE <<>>

\* tag := TagNoSessions; if len(sessionParams) > 0 { tag = TagSessions }
CommandTag(sessionParams) ==
    IF Len(sessionParams) > 0 THEN StructTag.Sessions ELSE StructTag.NoSessions

\* the end of RunCommandAndReturnRawResponse: an error of RunCommandBytes is
\* returned with no response code, tag or bytes
RawOrError(r) == IF r.err # "" THEN Raw(0, 0, <<>>, r.err, r.calls) ELSE r

\* tpmImpl.RunCommandAndReturnRawResponse: handles are the command handle
\* parameters, params the kinds and values of the command parameters,
\* sessionParams the session parameters
RunCommandAndReturnRawResponse(commandCode, handles, params, sessionParams, io) ==
    IF InvalidHandleParam(handles) THEN Raw(0, 0, <<>>, "InvalidParamError", <<>>)
    ELSE IF ~MarshalToBytes(params.kinds, params.vals).ok
    THEN Raw(0, 0, <<>>, "MarshallingError", <<>>)
    ELSE IF ~buildCommandAuthArea(sessionParams).ok THEN Raw(0, 0, <<>>, "error", <<>>)
    ELSE RawOrError(RunCommandBytes(
             CommandTag(sessionParams), commandCode,
             CommandHandleBytes(handles) \o CommandAuthBytes(sessionParams) \o
             MarshalToBytes(params.kinds, params.vals).b,
             io))

\* ------------------------------------------------------------------------
\* Responses: handles, parameters, authorization area
\* ------------------------------------------------------------------------

\* what ProcessResponse leaves: the kind of its error, and the response
\* handles and parameters unmarshalled into the caller's destinations
Processed(err, handles, params) == [err |-> err, handles |-> handles, params |-> params]

NilDests(n) == [i \in 1..n |-> NilDest]

\* ProcessResponse for a response without sessions, p the response
\* parameters unmarshalled from the bytes after the handles
ProcessParams(handles, p) ==
    IF ~p.ok THEN Processed("UnmarshallingError", handles, <<>>)
    ELSE Processed("", handles, p.v)

\* ProcessResponse for a response with sessions, size the parameterSize
\* read after the handles: the parameters are unmarshalled from the
\* parameterSize bytes that follow (buf.Read reports EOF when none follow),
\* the authorization area (nonce, attributes, hmac for each session) from
\* the bytes after them, then processAuthResponseArea verifies it
ProcessSessionsResponse(handles, size, rkinds, nsessions, authOk) ==
    IF ~size.ok \/ size.rest = <<>> \/ Len(size.rest) < size.v
    THEN Processed("UnmarshallingError", handles, <<>>)
    ELSE IF ~UnmarshalFromReader(rkinds, NilDests(Len(rkinds)),
                                 SubSeq(size.rest, 1, size.v), <<>>).ok
    THEN Processed("UnmarshallingError", handles, <<>>)
    ELSE IF ~unmarshalElems("authResponse", nsessions, Drop(size.rest, size.v), <<>>).ok
    THEN Processed("UnmarshallingError", handles,
                   UnmarshalFromReader(rkinds, NilDests(Len(rkinds)),
                                       SubSeq(size.rest, 1, size.v), <<>>).v)
    ELSE Processed(IF authOk THEN "" ELSE "error", handles,
                   UnmarshalFromReader(rkinds, NilDests(Len(rkinds)),
                                       SubSeq(size.rest, 1, size.v), <<>>).v)

\* ProcessResponse after the response handles, h their read
ProcessAfterHandles(h, responseTag, rkinds, nsessions, authOk) ==
    IF ~h.ok THEN Processed("UnmarshallingError", <<>>, <<>>)
    ELSE IF responseTag = StructTag.Sessions
    THEN ProcessSessionsResponse(h.v, UnmarshalU32(h.rest), rkinds, nsessions, authOk)
    ELSE ProcessParams(h.v, UnmarshalFromReader(rkinds, NilDests(Len(rkinds)), h.rest, <<>>))

\* ProcessResponse: nh response handles, response parameters of the kinds
\* rkinds, nsessions session parameters
ProcessResponse(responseTag, response, nh, rkinds, nsessions, authOk) ==
    ProcessAfterHandles(
        UnmarshalFromReader([i \in 1..nh |-> "Handle"], NilDests(nh), response, <<>>),
        responseTag, rkinds, nsessions, authOk)

\* what RunCommand returns: the error, whether ProcessResponse ran, what
\* it unmarshalled, and the raw response
Ran(raw, parsed, p) ==
    [err |-> IF raw.err # "" THEN raw.err ELSE p.err,
     parsed |-> parsed, handles |-> p.handles, params |-> p.params,
     code |-> raw.code, tag |-> raw.tag, resp |-> raw.resp, calls |-> raw.calls]

\* the end of RunCommand, raw what RunCommandAndReturnRawResponse returned:
\* its error, or ProcessResponse of the response bytes
RunCommandResult(raw, rargs, nsessions, authOk) ==
    IF raw.err # "" THEN Ran(raw, FALSE, Processed("", <<>>, <<>>))
    ELSE Ran(raw, TRUE,
             ProcessResponse(raw.tag, raw.resp, rargs.nh, rargs.kinds, nsessions, authOk))

\* tpmImpl.RunCommand
RunCommand(commandCode, handles, params, sessionParams, rargs, io) ==
    RunCommandResult(
        RunCommandAndReturnRawResponse(commandCode, handles, params, sessionParams, io),
        rargs, Len(sessionParams), io.authOk)


\* ------------------------------------------------------------------------
\* The pipeline driven by a client and a transport
\* ------------------------------------------------------------------------

\* TPM_CC_NV_ReadPublic and TPM_CC_GetCapability
CommandCodes == {361, 378}

\* the command handle parameters of a command
HandleParams ==
    {<<>>,
     <<[kind |-> "Handle", h |-> HandleOwner]>>,
     <<[kind |-> "ResourceContext", h |-> RegNVIndexHandle]>>,
     <<[kind |-> "Handle", h |-> HandleOwner],
       [kind |-> "ResourceContext", h |-> RegObjectHandle]>>,
     <<[kind |-> "other", h |-> HandleUnassigned]>>}

\* the command parameters of a command: their kinds and values
CommandParams ==
    <<[kinds |-> <<>>, vals |-> <<>>],
      [kinds |-> <<"sized">>, vals |-> << <<1, 2>> >>],
      [kinds |-> <<"u16", "list">>, vals |-> <<4, <<11, 12>> >>],
      [kinds |-> <<"chan">>, vals |-> <<0>>]>>

\* a password session and an HMAC session, one of which cannot be used
PasswordSession ==
    [handle |-> <<64, 9>>, nonce |-> <<>>, attrs |-> 1, hmac |-> <<7>>, usable |-> TRUE]

HMACSession(usable) ==
    [handle |-> RegSessionHandle, nonce |-> <<5, 6>>, attrs |-> 1, hmac |-> <<8, 9>>,
     usable |-> usable]

SessionParams ==
    {<<>>, <<PasswordSession>>, <<HMACSession(TRUE)>>, <<HMACSession(FALSE)>>,
     <<PasswordSession, HMACSession(TRUE)>>}

\* the response destinations of a command: the number of response handles
\* and the kinds of the response parameters
ResponseParams ==
    {[nh |-> 0, kinds |-> <<>>], [nh |-> 1, kinds |-> <<>>],
     [nh |-> 0, kinds |-> <<"sized">>]}

\* the bytes of a response: tag, responseSize, responseCode, payload
Response(tag, size, code, payload) ==
    MarshalU16(tag) \o MarshalU32(size) \o MarshalU32(code) \o payload

\* parameterSize, parameters and one authorization entry of a response
\* with sessions
SessionsPayload == MarshalU32(4) \o <<0, 2, 21, 22>> \o <<0, 0, 1, 0, 0>>

\* the responses the transport delivers: well formed ones, error and
\* warning codes, responses cut short, responses whose responseSize is not
\* the number of bytes delivered
Responses ==
    {Response(StructTag.NoSessions, 10, 0, <<>>),
     Response(StructTag.NoSessions, 14, 0, <<0, 2, 21, 22>>),
     Response(StructTag.NoSessions, 14, 0, <<128, 0, 0, 1>>),
     Response(StructTag.Sessions, 23, 0, SessionsPayload),
     Response(StructTag.NoSessions, 10, 257, <<>>),
     Response(StructTag.NoSessions, 10, 395, <<>>),
     Response(StructTag.NoSessions, 10, 2338, <<>>),
     Response(StructTag.NoSessions, 10, 0, <<0, 2, 21, 22>>),
     Response(StructTag.NoSessions, 14, 0, <<>>),
     Response(StructTag.NoSessions, 14, 0, <<0, 2, 21>>),
     Response(StructTag.NoSessions, 10, 257, <<0, 2, 21, 22>>),
     <<128, 1, 0, 0, 0>>,
     <<>>}

\* the behaviour of the transport for one command
Transports ==
    {[writeErr |-> TRUE, readErr |-> FALSE, response |-> <<>>, authOk |-> TRUE],
     [writeErr |-> FALSE, readErr |-> TRUE, response |-> <<>>, authOk |-> TRUE]}
    \cup {[writeErr |-> FALSE, readErr |-> FALSE, response |-> r, authOk |-> ok] :
             r \in Responses, ok \in BOOLEAN}

\* the command bytes a client hands to RunCommandBytes
CommandBytes == {<<>>, PutUint32(HandleOwner), <<0, 2, 1, 2>>}

PipeInit ==
    /\ heap = [i \in CtxIds |-> Nil]
    /\ sessions = [i \in SessIds |-> Nil]
    /\ permanentResources = [h \in PermanentHandles |-> 0]
    /\ wire = Nil
    /\ last = [op |-> "none"]
    /\ ops = 0
    /\ bctx = Nil
    /\ blob = <<>>
    /\ bkind = "none"
    /\ out = NoOut
    /\ tcti = <<>>
    /\ run = [op |-> "none"]
    /\ mu = Nil
    /\ dec = Nil
    /\ chg = Nil

\* a client runs one command on a new connection: tcti holds the calls the
\* command made on the transport, run the command and what it returned
PipeRunCommand ==
    /\ run.op = "none"
    /\ \E commandCode \in CommandCodes, handles \in HandleParams,
          p \in DOMAIN CommandParams, sessionParams \in SessionParams,
          rargs \in ResponseParams, io \in Transports :
           /\ tcti' = RunCommand(commandCode, handles, CommandParams[p], sessionParams,
                                 rargs, io).calls
           /\ run' = [op |-> "RunCommand", commandCode |-> commandCode, handles |-> handles,
                      params |-> CommandParams[p], sessionParams |-> sessionParams,
                      rargs |-> rargs, io |-> io,
                      ret |-> RunCommand(commandCode, handles, CommandParams[p],
                                         sessionParams, rargs, io)]
           /\ UNCHANGED <<regvars, blobvars, muvars, errvars, authvars>>

\* a client runs command bytes of its own
PipeRunCommandBytes ==
    /\ run.op = "none"
    /\ \E tag \in {StructTag.NoSessions, StructTag.Sessions}, commandCode \in CommandCodes,
          commandBytes \in CommandBytes, io \in Transports :
           /\ tcti' = RunCommandBytes(tag, commandCode, commandBytes, io).calls
           /\ run' = [op |-> "RunCommandBytes", commandCode |-> commandCode, tag |-> tag,
                      commandBytes |-> commandBytes, io |-> io,
                      ret |-> RunCommandBytes(tag, commandCode, commandBytes, io)]
           /\ UNCHANGED <<regvars, blobvars, muvars, errvars, authvars>>

PipeNext ==
    \/ PipeRunCommand
    \/ PipeRunCommandBytes

SpecPipe == PipeInit /\ [][PipeNext]_vars


\* ------------------------------------------------------------------------
\* Claims about the pipeline (SpecPipe)
\* ------------------------------------------------------------------------

\* the command read a response from the transport
ResponseRead == run.op = "RunCommand" /\ Len(tcti) = 2 /\ ~run.io.readErr

\* b is shorter than the response header, or its responseSize field is not
\* the number of bytes of b
MalformedResponse(b) == Len(b) < 10 \/ UnmarshalU32(Drop(b, 2)).v # Len(b)

\* C15: a response that is shorter than the 10-byte response header, or
\* whose responseSize field differs from the number of bytes received,
\* makes the command fail with an invalid-response error: it is never
\* reported as success and its payload is never parsed.
C15_MalformedResponseRejected ==
    (ResponseRead /\ MalformedResponse(tcti[2].data)) =>
        (run.ret.err = "InvalidResponseError" /\ ~run.ret.parsed)

\* C15, the case: a response whose responseSize says 10 bytes arrives with
\* 14, and the command returns no error and the parameter it parsed from
\* the payload
C15_Case ==
    /\ ResponseRead
    /\ Len(tcti[2].data) = 14
    /\ UnmarshalU32(Drop(tcti[2].data, 2)).v = 10
    /\ run.ret.err = ""
    /\ run.ret.parsed
    /\ run.ret.params = << <<21, 22>> >>

\* the errors of the transport
TransportErrors == {"TPMWriteError", "TPMReadError"}

\* the command was refused before the transport was used: a command handle
\* parameter of a wrong type, parameters that cannot be marshalled, or an
\* authorization area that cannot be built
RefusedBeforeWrite ==
    /\ run.op = "RunCommand"
    /\ \/ InvalidHandleParam(run.handles)
       \/ ~MarshalToBytes(run.params.kinds, run.params.vals).ok
       \/ \E i \in 1..Len(run.sessionParams) : ~run.sessionParams[i].usable

\* C16: a command round trip performs exactly one transport write, of the
\* complete command, followed by at most one transport read; when the
\* arguments are refused or cannot be marshalled nothing is written, when
\* the write fails nothing is read, and a failed write or read is returned
\* as a transport error, which no response code and no marshalling failure
\* produces.
C16_OneWriteThenAtMostOneRead ==
    run.op # "none" =>
        /\ Len(tcti) <= 2
        /\ \A i \in 1..Len(tcti) : tcti[i].call = (IF i = 1 THEN "Write" ELSE "Read")
        /\ RefusedBeforeWrite <=> tcti = <<>>
        /\ RefusedBeforeWrite => run.ret.err \notin TransportErrors
        /\ tcti # <<>> =>
              /\ Len(tcti[1].data) >= 10
              /\ UnmarshalU32(Drop(tcti[1].data, 2)).v = Len(tcti[1].data)
              /\ run.io.writeErr => (Len(tcti) = 1 /\ run.ret.err = "TPMWriteError")
              /\ ~run.io.writeErr => Len(tcti) = 2
              /\ (~run.io.writeErr /\ run.io.readErr) => run.ret.err = "TPMReadError"
              /\ (~run.io.writeErr /\ ~run.io.readErr) => run.ret.err \notin TransportErrors

\* C16, the case: the write of a command fails, and the command returns the
\* write error without a read
C16_Witness ==
    /\ run.op = "RunCommand"
    /\ run.io.writeErr
    /\ Len(tcti) = 1
    /\ tcti[1].call = "Write"
    /\ run.ret.err = "TPMWriteError"

\* the bytes the command wrote, and their parts after the header
Emitted == tcti[1].data

EmittedHandles == SubSeq(Emitted, 11, 10 + 4 * Len(run.handles))

EmittedParams ==
    SubSeq(Emitted, Len(Emitted) - Len(MarshalToBytes(run.params.kinds, run.params.vals).b) + 1,
           Len(Emitted))

EmittedAuth ==
    SubSeq(Emitted, 11 + 4 * Len(run.handles),
           Len(Emitted) - Len(MarshalToBytes(run.params.kinds, run.params.vals).b))

\* C17: the bytes of a command are a 10-byte header, then the handles, then
\* the authorization area, then the parameters; the tag of the header is
\* tag-sessions exactly when a session is attached, else tag-no-sessions
\* with an empty authorization area; the size field of the header is 10
\* plus the number of bytes that follow.
C17_CommandLayout ==
    (run.op = "RunCommand" /\ tcti # <<>>) =>
        /\ Len(Emitted) >= 10 + 4 * Len(run.handles) +
                           Len(MarshalToBytes(run.params.kinds, run.params.vals).b)
        /\ SubSeq(Emitted, 1, 2) =
              MarshalU16(IF run.sessionParams # <<>> THEN StructTag.Sessions
                         ELSE StructTag.NoSessions)
        /\ UnmarshalU32(Drop(Emitted, 2)).v = 10 + Len(Drop(Emitted, 10))
        /\ SubSeq(Emitted, 7, 10) = MarshalU32(run.commandCode)
        /\ \A i \in 1..Len(run.handles) :
              SubSeq(EmittedHandles, 4 * i - 3, 4 * i) = PutUint32(run.handles[i].h)
        /\ EmittedParams = MarshalToBytes(run.params.kinds, run.params.vals).b
        /\ run.sessionParams = <<>> => EmittedAuth = <<>>
        /\ run.sessionParams # <<>> =>
              /\ Len(EmittedAuth) >= 4
              /\ UnmarshalU32(EmittedAuth).v = Len(EmittedAuth) - 4
              /\ SubSeq(EmittedAuth, 5, 8) = PutUint32(run.sessionParams[1].handle)

\* C17, the case: a command with two handles, two sessions and parameters
\* was written
C17_Witness ==
    /\ run.op = "RunCommand"
    /\ tcti # <<>>
    /\ Len(run.handles) = 2
    /\ Len(run.sessionParams) = 2
    /\ run.params.kinds = <<"u16", "list">>
    /\ SubSeq(Emitted, 1, 2) = MarshalU16(StructTag.Sessions)


\* ------------------------------------------------------------------------
\* The codec driven by a client: values are marshalled, bytes are
\* unmarshalled into destinations, and what was unmarshalled is marshalled
\* again
\* ------------------------------------------------------------------------

\* the values a client marshals: their kinds and the values
MuValues ==
    <<[kinds |-> <<"u8">>, vals |-> <<7>>],
      [kinds |-> <<"u16">>, vals |-> <<258>>],
      [kinds |-> <<"u32">>, vals |-> <<65539>>],
      [kinds |-> <<"Handle">>, vals |-> <<HandleOwner>>],
      [kinds |-> <<"sized">>, vals |-> << <<170, 187>> >>],
      [kinds |-> <<"sized">>, vals |-> << <<>> >>],
      [kinds |-> <<"list">>, vals |-> << <<11, 12>> >>],
      [kinds |-> <<"list">>, vals |-> << <<>> >>],
      [kinds |-> <<"SymDef">>,
       vals |-> <<[Algorithm |-> SymAlgorithmAES, KeyBits |-> 128, Mode |-> SymModeCFB]>>],
      [kinds |-> <<"SymDef">>,
       vals |-> <<[Algorithm |-> SymAlgorithmXOR, KeyBits |-> HashAlgorithmSHA256, Mode |-> 0]>>],
      [kinds |-> <<"SizedSymDefAndTag">>,
       vals |-> <<[Sym |-> [Algorithm |-> SymAlgorithmNull, KeyBits |-> 0, Mode |-> 0],
                   Tag |-> 7]>>],
      [kinds |-> <<"SizedSymDefAndTag">>, vals |-> <<[Sym |-> Nil, Tag |-> 7]>>],
      [kinds |-> <<"u16", "sized", "list">>, vals |-> <<4, <<1, 2, 3>>, <<5>> >>],
      [kinds |-> <<"chan">>, vals |-> <<0>>],
      [kinds |-> <<"TypedData">>, vals |-> <<[Type |-> handleContextTypePermanent, Data |-> Nil]>>],
      [kinds |-> <<"TypedData">>, vals |-> <<[Type |-> handleContextTypeNvIndex, Data |-> NVPubA]>>],
      [kinds |-> <<"TypedData">>, vals |-> <<[Type |-> 9, Data |-> Nil]>>],
      [kinds |-> <<"TypedDataNoSelector">>,
       vals |-> <<[Type |-> handleContextTypePermanent, Data |-> Nil]>>],
      [kinds |-> <<"TypedDataBadSelector">>,
       vals |-> <<[Type |-> handleContextTypePermanent, Data |-> Nil]>>],
      [kinds |-> <<"union">>, vals |-> <<Nil>>],
      [kinds |-> <<"unions">>, vals |-> << <<Nil>> >>]>>

\* the bytes a client unmarshals, given the bytes b a marshal produced: b
\* itself, b with a byte after it, b without its last byte, b with a size
\* field one larger or one smaller
MuInputs(b) ==
    {b, b \o <<255>>}
    \cup (IF Len(b) >= 1 THEN {SubSeq(b, 1, Len(b) - 1)} ELSE {})
    \cup (IF Len(b) >= 2 /\ b[2] < 255 THEN {[b EXCEPT ![2] = @ + 1]} ELSE {})
    \cup (IF Len(b) >= 2 /\ b[2] > 0 THEN {[b EXCEPT ![2] = @ - 1]} ELSE {})

\* the bytes a client unmarshals when it has none of its own: a structure
\* whose union has no data, one whose selector is unknown, a list of one
\* element
MuBytes == {<<handleContextTypePermanent>>, <<9>>, <<0, 0, 0, 1, 1>>}

\* the destination of the first value: nil, or a slice the caller
\* allocated with one or with three elements; for a structure with a sized
\* structure, whether the caller allocated the sized structure
MuDests == <<NilDest, AllocatedDest(<<0>>), AllocatedDest(<<0, 0, 0>>)>>

\* the destinations of a top-level unmarshal: d for the first value, nil
\* slices and pointers for the others
DestsFor(kinds, d) == [i \in 1..Len(kinds) |-> IF i = 1 THEN d ELSE NilDest]

MuInit ==
    /\ heap = [i \in CtxIds |-> Nil]
    /\ sessions = [i \in SessIds |-> Nil]
    /\ permanentResources = [h \in PermanentHandles |-> 0]
    /\ wire = Nil
    /\ last = [op |-> "none"]
    /\ ops = 0
    /\ bctx = Nil
    /\ blob = <<>>
    /\ bkind = "none"
    /\ out = NoOut
    /\ tcti = <<>>
    /\ run = Nil
    /\ dec = Nil
    /\ chg = Nil
    /\ \E i \in DOMAIN MuValues :
          mu = [op |-> "none", kinds |-> MuValues[i].kinds, vals |-> MuValues[i].vals]

\* the client marshals its values
MuMarshalToBytes ==
    /\ mu.op = "none"
    /\ mu' = [op |-> "MarshalToBytes", kinds |-> mu.kinds, vals |-> mu.vals,
              ret |-> MarshalToBytes(mu.kinds, mu.vals)]
    /\ UNCHANGED <<regvars, blobvars, pipevars, errvars, authvars>>

\* the client unmarshals bytes into destinations of the kinds of its
\* values; a destination that is not a slice is overwritten, allocated or
\* not
MuUnmarshalFromBytes ==
    /\ mu.op = "MarshalToBytes"
    /\ mu.ret.ok
    /\ \E b \in MuInputs(mu.ret.b), d \in DOMAIN MuDests :
          /\ MuDests[d].nil \/ Head(mu.kinds) \in {"sized", "list", "SizedSymDefAndTag"}
          /\ mu' = [op |-> "UnmarshalFromBytes", kinds |-> mu.kinds, vals |-> mu.vals,
                    marshalled |-> mu.ret.b, b |-> b, dest |-> MuDests[d],
                    ret |-> UnmarshalFromBytes(mu.kinds, DestsFor(mu.kinds, MuDests[d]), b)]
    /\ UNCHANGED <<regvars, blobvars, pipevars, errvars, authvars>>

\* the client, whose values did not marshal, unmarshals bytes it was given
\* into destinations of the kinds of its values
MuUnmarshalGiven ==
    /\ mu.op = "MarshalToBytes"
    /\ ~mu.ret.ok
    /\ \E b \in MuBytes :
          mu' = [op |-> "UnmarshalFromBytes", kinds |-> mu.kinds, vals |-> mu.vals,
                 marshalled |-> mu.ret.b, b |-> b, dest |-> NilDest,
                 ret |-> UnmarshalFromBytes(mu.kinds, DestsFor(mu.kinds, NilDest), b)]
    /\ UNCHANGED <<regvars, blobvars, pipevars, errvars, authvars>>

\* the lengths of the long buffers a client marshals
LongLengths == {3, 65535, 65536, 65537}

\* the kinds a long buffer is marshalled as: a sized buffer, or a sized
\* structure whose body is the buffer
LongKinds == {"sized", "sized:Raw"}

\* the buffer v filled up with zero bytes to n bytes
LongBuffer(v, n) == [i \in 1..n |-> IF i <= Len(v) THEN v[i] ELSE 0]

\* what the client keeps of the bytes r it marshalled: whether there was
\* an error, the first five bytes and the number of bytes
Marshalled(r) ==
    [ok |-> r.ok, head |-> SubSeq(r.b, 1, IF Len(r.b) < 5 THEN Len(r.b) ELSE 5),
     len |-> Len(r.b)]

\* the client, whose value is a sized buffer, fills it up to n bytes and
\* marshals it as a sized buffer or as the body of a sized structure
MuMarshalLong ==
    /\ mu.op = "none"
    /\ mu.kinds = <<"sized">>
    /\ \E n \in LongLengths, kind \in LongKinds :
          mu' = [op |-> "MarshalLong", kinds |-> <<kind>>, n |-> n,
                 ret |-> Marshalled(MarshalToBytes(<<kind>>,
                                                   <<LongBuffer(mu.vals[1], n)>>))]
    /\ UNCHANGED <<regvars, blobvars, pipevars, errvars, authvars>>

\* the client marshals what it unmarshalled
MuMarshalAgain ==
    /\ mu.op = "UnmarshalFromBytes"
    /\ mu.ret.ok
    /\ mu' = [op |-> "MarshalAgain", kinds |-> mu.kinds, b |-> mu.b, n |-> mu.ret.n,
              dest |-> mu.dest, ret |-> MarshalToBytes(mu.kinds, mu.ret.v)]
    /\ UNCHANGED <<regvars, blobvars, pipevars, errvars, authvars>>

MuNext ==
    \/ MuMarshalToBytes
    \/ MuUnmarshalFromBytes
    \/ MuUnmarshalGiven
    \/ MuMarshalAgain
    \/ MuMarshalLong

SpecMu == MuInit /\ [][MuNext]_vars


\* ------------------------------------------------------------------------
\* Claims about the codec (SpecMu)
\* ------------------------------------------------------------------------

\* C18: marshalling and unmarshalling are inverse on the supported types
\* (integers, sized buffers, lists, sized structures and a null one,
\* structures with unions): the bytes marshalled from values unmarshal
\* without error to the same values and are consumed entirely, and bytes
\* that unmarshal without error and are consumed entirely marshal back to
\* the same bytes.
C18_RoundTrip ==
    /\ (mu.op = "UnmarshalFromBytes" /\ mu.b = mu.marshalled /\ mu.dest.nil) =>
          (mu.ret.ok /\ mu.ret.n = Len(mu.b) /\ mu.ret.v = mu.vals)
    /\ (mu.op = "MarshalAgain" /\ mu.n = Len(mu.b) /\ mu.dest.nil) =>
          (mu.ret.ok /\ mu.ret.b = mu.b)

\* C18, the case: the bytes 00 03 00 10 07, a sized structure whose size
\* field says 3 for a structure of 2 bytes and the byte after it, unmarshal
\* without error, all five consumed, and marshal back as 00 02 00 10 07
C18_Case ==
    /\ mu.op = "MarshalAgain"
    /\ mu.kinds = <<"SizedSymDefAndTag">>
    /\ mu.b = <<0, 3, 0, 16, 7>>
    /\ mu.n = 5
    /\ mu.ret.ok
    /\ mu.ret.b = <<0, 2, 0, 16, 7>>

\* C19: unmarshalling a sized buffer with size field L leaves the
\* destination with L elements and consumes 2 + L bytes, whatever the
\* destination was, a slice allocated before the call included; the same
\* for a list (here of 16-bit elements) with its 32-bit count.
C19_SliceLengthIsPrefix ==
    (mu.op = "UnmarshalFromBytes" /\ mu.ret.ok) =>
        /\ mu.kinds = <<"sized">> =>
              /\ Len(mu.ret.v[1]) = UnmarshalU16(mu.b).v
              /\ mu.ret.n = 2 + UnmarshalU16(mu.b).v
        /\ mu.kinds = <<"list">> =>
              /\ Len(mu.ret.v[1]) = UnmarshalU32(mu.b).v
              /\ mu.ret.n = 4 + 2 * UnmarshalU32(mu.b).v

\* C19, the case: the bytes 00 02 AA BB unmarshalled into a slice allocated
\* with one element leave it with one element, AA, and three bytes consumed
C19_Case ==
    /\ mu.op = "UnmarshalFromBytes"
    /\ mu.kinds = <<"sized">>
    /\ mu.b = <<0, 2, 170, 187>>
    /\ ~mu.dest.nil
    /\ mu.ret.ok
    /\ mu.ret.v = << <<170>> >>
    /\ mu.ret.n = 3

\* C20: a top-level unmarshal of bytes of which some are left after every
\* destination value was decoded fails (trailing bytes); it does not
\* succeed.
C20_TrailingBytesRefused ==
    mu.op = "UnmarshalFromBytes" => ~(mu.ret.ok /\ mu.ret.n < Len(mu.b))

\* C20, the case: the bytes of a value and one more byte unmarshal without
\* error to the value, the last byte unread
C20_Case ==
    /\ mu.op = "UnmarshalFromBytes"
    /\ mu.b = mu.marshalled \o <<255>>
    /\ mu.dest.nil
    /\ mu.ret.ok
    /\ mu.ret.n = Len(mu.b) - 1
    /\ mu.ret.v = mu.vals

\* the selector values for which handleContextU has no data, and those it
\* recognises
NoDataTypes == {handleContextTypeDummy, handleContextTypePermanent}

KnownTypes ==
    NoDataTypes \cup {handleContextTypeObject, handleContextTypeNvIndex, handleContextTypeSession}

\* the kinds of value whose union is outside a struct, or in a struct
\* whose field has no selector option or one that names no field
MisplacedUnionKinds ==
    {<<"union">>, <<"TypedDataNoSelector">>, <<"TypedDataBadSelector">>}

\* C21: a union whose selector maps to no data marshals to zero bytes and
\* unmarshals from zero bytes without error; a selector the union does not
\* recognise makes marshalling and unmarshalling fail; a union outside a
\* struct (at the top level, in a list), or whose field has no selector
\* option or one naming no field, makes them fail; a failed marshal gives
\* no bytes and a failed unmarshal has consumed none.
C21_UnionSelection ==
    /\ mu.op = "MarshalToBytes" =>
          /\ (mu.kinds = <<"TypedData">> /\ mu.vals[1].Type \in NoDataTypes) =>
                (mu.ret.ok /\ mu.ret.b = <<mu.vals[1].Type>>)
          /\ (mu.kinds = <<"TypedData">> /\ mu.vals[1].Type \notin KnownTypes) =>
                (~mu.ret.ok /\ mu.ret.b = <<>>)
          /\ mu.kinds \in MisplacedUnionKinds => (~mu.ret.ok /\ mu.ret.b = <<>>)
          /\ (mu.kinds = <<"unions">> /\ mu.vals[1] # <<>>) => (~mu.ret.ok /\ mu.ret.b = <<>>)
    /\ (mu.op = "UnmarshalFromBytes" /\ mu.b # <<>>) =>
          /\ (mu.kinds = <<"TypedData">> /\ mu.b[1] \in NoDataTypes) =>
                /\ mu.ret.ok
                /\ mu.ret.n = 1
                /\ mu.ret.v = <<[Type |-> mu.b[1], Data |-> Nil]>>
          /\ (mu.kinds = <<"TypedData">> /\ mu.b[1] \notin KnownTypes) =>
                (~mu.ret.ok /\ mu.ret.n = 0)
          /\ mu.kinds \in MisplacedUnionKinds => (~mu.ret.ok /\ mu.ret.n = 0)
          /\ (mu.kinds = <<"unions">> /\ UnmarshalU32(mu.b).ok /\ UnmarshalU32(mu.b).v > 0) =>
                (~mu.ret.ok /\ mu.ret.n = 0)

\* C21, the case: the byte 09, a selector the union does not recognise,
\* has failed to unmarshal into a structure with the union
C21_UnknownSelector ==
    /\ mu.op = "UnmarshalFromBytes"
    /\ mu.kinds = <<"TypedData">>
    /\ mu.b = <<9>>
    /\ ~mu.ret.ok

\* a union with no data was unmarshalled from the one byte of its selector
C21_NoData ==
    /\ mu.op = "UnmarshalFromBytes"
    /\ mu.kinds = <<"TypedData">>
    /\ mu.b = <<handleContextTypePermanent>>
    /\ mu.ret.ok
    /\ mu.ret.n = 1

\* a union in a field with no selector option has failed to unmarshal
C21_NoSelectorOption ==
    /\ mu.op = "UnmarshalFromBytes"
    /\ mu.kinds = <<"TypedDataNoSelector">>
    /\ ~mu.ret.ok


\* ------------------------------------------------------------------------
\* The decoder of response codes and the predicates on its errors
\* (errors.go), driven by a client
\* ------------------------------------------------------------------------

\* a ResponseCode is a 32-bit number, held as its high and low 16 bits
Success == <<0, 0>>

formatMask == 128

fmt0ErrorCodeMask == 127

fmt0VersionMask == 256

fmt0VendorMask == 1024

fmt0SeverityMask == 2048

fmt1ErrorCodeMask == 63

fmt1IndexShift == 8

fmt1ParameterIndexMask == 3840

fmt1HandleOrSessionIndexMask == 1792

fmt1ParameterMask == 64

fmt1SessionMask == 2048

\* the first format-1 error code (RC_FMT1)
errorCode1Start == 128

AnyParameterIndex == -1

AnySessionIndex == -1

\* x & m for numbers of 16 bits
RECURSIVE And(_, _)
And(x, m) ==
    IF x = 0 \/ m = 0 THEN 0
    ELSE (x % 2) * (m % 2) + 2 * And(x \div 2, m \div 2)

\* the bits of a response code under a mask: every mask is within the low
\* 16 bits
Masked(resp, mask) == And(resp[2], mask)

TPM1Error(command, resp) == [kind |-> "TPM1Error", Command |-> command, Code |-> resp, Index |-> 0]

TPMVendorError(command, resp) ==
    [kind |-> "TPMVendorError", Command |-> command, Code |-> resp, Index |-> 0]

\* a TPMParameterError and a TPMSessionError wrap a TPMError, as a
\* TPMHandleError does; Command and Code are those of the wrapped error
TPMParameterError(command, code, index) ==
    [kind |-> "TPMParameterError", Command |-> command, Code |-> code, Index |-> index]

TPMSessionError(command, code, index) ==
    [kind |-> "TPMSessionError", Command |-> command, Code |-> code, Index |-> index]

\* a faulty decoding of a format-1 code that leaves out errorCode1Start
DecodeFormat1NoBias(command, resp) ==
    IF Masked(resp, fmt1ParameterMask) > 0
    THEN TPMParameterError(command, Masked(resp, fmt1ErrorCodeMask),
                           Masked(resp, fmt1ParameterIndexMask) \div (2 ^ fmt1IndexShift))
    ELSE IF Masked(resp, fmt1SessionMask) > 0
    THEN TPMSessionError(command, Masked(resp, fmt1ErrorCodeMask),
                         Masked(resp, fmt1HandleOrSessionIndexMask) \div (2 ^ fmt1IndexShift))
    ELSE IF Masked(resp, fmt1HandleOrSessionIndexMask) > 0
    THEN TPMHandleError(command, Masked(resp, fmt1ErrorCodeMask),
                        Masked(resp, fmt1HandleOrSessionIndexMask) \div (2 ^ fmt1IndexShift))
    ELSE TPMError(command, Masked(resp, fmt1ErrorCodeMask))

\* a faulty decoding of a format-0 code that looks at the severity bit
\* before the vendor bit
DecodeFormat0SeverityFirst(command, resp) ==
    IF Masked(resp, fmt0VersionMask) = 0 THEN TPM1Error(command, resp)
    ELSE IF Masked(resp, fmt0SeverityMask) > 0
    THEN TPMWarning(command, Masked(resp, fmt0ErrorCodeMask))
    ELSE IF Masked(resp, fmt0VendorMask) > 0 THEN TPMVendorError(command, resp)
    ELSE TPMError(command, Masked(resp, fmt0ErrorCodeMask))

\* DecodeResponseCode(command, resp) of errors.go, a code with the format
\* bit clear: a TPM 1.2 error, a vendor error, a warning or an error
DecodeFormat0(command, resp) ==
    IF Masked(resp, fmt0VersionMask) = 0 THEN TPM1Error(command, resp)
    ELSE IF Masked(resp, fmt0VendorMask) > 0 THEN TPMVendorError(command, resp)
    ELSE IF Masked(resp, fmt0SeverityMask) > 0
    THEN TPMWarning(command, Masked(resp, fmt0ErrorCodeMask))
    ELSE TPMError(command, Masked(resp, fmt0ErrorCodeMask))

\* a code with the format bit set: a TPMError with the format-1 code,
\* wrapped for a parameter, a session or a handle
DecodeFormat1(command, resp) ==
    IF Masked(resp, fmt1ParameterMask) > 0
    THEN TPMParameterError(command, Masked(resp, fmt1ErrorCodeMask) + errorCode1Start,
                           Masked(resp, fmt1ParameterIndexMask) \div (2 ^ fmt1IndexShift))
    ELSE IF Masked(resp, fmt1SessionMask) > 0
    THEN TPMSessionError(command, Masked(resp, fmt1ErrorCodeMask) + errorCode1Start,
                         Masked(resp, fmt1HandleOrSessionIndexMask) \div (2 ^ fmt1IndexShift))
    ELSE IF Masked(resp, fmt1HandleOrSessionIndexMask) > 0
    THEN TPMHandleError(command, Masked(resp, fmt1ErrorCodeMask) + errorCode1Start,
                        Masked(resp, fmt1HandleOrSessionIndexMask) \div (2 ^ fmt1IndexShift))
    ELSE TPMError(command, Masked(resp, fmt1ErrorCodeMask) + errorCode1Start)

DecodeCommandResponseCode(command, resp) ==
    IF resp = Success THEN NoError
    ELSE IF Masked(resp, formatMask) = 0 THEN DecodeFormat0(command, resp)
    ELSE DecodeFormat1(command, resp)

\* Unwrap: the TPMError a parameter, session or handle error wraps; no
\* other error of the decoder wraps one
Unwrap(err) ==
    IF err.kind \in {"TPMParameterError", "TPMSessionError", "TPMHandleError"}
    THEN TPMError(err.Command, err.Code)
    ELSE Nil

\* xerrors.As: the first error of the given type in the chain of err, nil
\* when there is none
As(err, kind) ==
    IF err.kind = kind THEN err
    ELSE IF Unwrap(err) # Nil /\ Unwrap(err).kind = kind THEN Unwrap(err)
    ELSE Nil

IsTPMError(err, code, command) ==
    /\ As(err, "TPMError") # Nil
    /\ (code = AnyErrorCode \/ As(err, "TPMError").Code = code)
    /\ (command = AnyCommandCode \/ As(err, "TPMError").Command = command)

IsTPMParameterError(err, code, command, param) ==
    /\ As(err, "TPMParameterError") # Nil
    /\ (code = AnyErrorCode \/ err.Code = code)
    /\ (command = AnyCommandCode \/ err.Command = command)
    /\ (param = AnyParameterIndex \/ err.Index = param)

IsTPMSessionError(err, code, command, session) ==
    /\ As(err, "TPMSessionError") # Nil
    /\ (code = AnyErrorCode \/ err.Code = code)
    /\ (command = AnyCommandCode \/ err.Command = command)
    /\ (session = AnySessionIndex \/ err.Index = session)

\* the error codes the literal vectors name: TPM_RC_SENSITIVE,
\* TPM_RC_NV_UNAVAILABLE as a warning code, and the format-1 codes
\* TPM_RC_ECC_POINT, TPM_RC_KEY and TPM_RC_SYMMETRIC
ErrorCodes ==
    [Sensitive |-> 85, NVUnavailable |-> 35, ECCPoint |-> errorCode1Start + 39,
     Key |-> errorCode1Start + 28, Symmetric |-> errorCode1Start + 22]

\* the commands of the client
Commands == {"ReadPublic", "NVReadPublic"}

\* the response codes of the client: every code of 12 bits, the vendor
\* code A5A5057E, and codes whose low 12 bits are zero
ResponseCodes ==
    {<<0, lo>> : lo \in 0..4095} \cup {<<42405, 1406>>, <<0, 4096>>, <<1, 0>>, <<32768, 384>>}

ErrInit ==
    /\ heap = [i \in CtxIds |-> Nil]
    /\ sessions = [i \in SessIds |-> Nil]
    /\ permanentResources = [h \in PermanentHandles |-> 0]
    /\ wire = Nil
    /\ last = [op |-> "none"]
    /\ ops = 0
    /\ bctx = Nil
    /\ blob = <<>>
    /\ bkind = "none"
    /\ out = NoOut
    /\ tcti = <<>>
    /\ run = Nil
    /\ mu = Nil
    /\ chg = Nil
    /\ \E command \in Commands, resp \in ResponseCodes :
          dec = [op |-> "none", command |-> command, resp |-> resp]

\* the client decodes its response code
ErrDecodeResponseCode ==
    /\ dec.op = "none"
    /\ dec' = [op |-> "DecodeResponseCode", command |-> dec.command, resp |-> dec.resp,
               err |-> DecodeCommandResponseCode(dec.command, dec.resp)]
    /\ UNCHANGED <<regvars, blobvars, pipevars, muvars, authvars>>

\* the codes, commands and indexes a client matches an error against: the
\* sentinels, those of the error, and others
MatchCodes(err) ==
    {AnyErrorCode, AnyWarningCode, 1}
    \cup (IF err.kind \in {"TPM1Error", "TPMVendorError"} THEN {} ELSE {err.Code})

MatchCommands == {AnyCommandCode, "ReadPublic"}

MatchIndexes(err) == {AnyHandleIndex, err.Index, 5}

\* the client asks the five predicates about the error it decoded
ErrMatch ==
    /\ dec.op = "DecodeResponseCode"
    /\ dec.err # NoError
    /\ \E code \in MatchCodes(dec.err), command \in MatchCommands, index \in MatchIndexes(dec.err) :
          dec' = [op |-> "Match", resp |-> dec.resp, err |-> dec.err,
                  code |-> code, command |-> command, index |-> index,
                  IsTPMError |-> IsTPMError(dec.err, code, command),
                  IsTPMHandleError |-> IsTPMHandleError(dec.err, code, command, index),
                  IsTPMParameterError |-> IsTPMParameterError(dec.err, code, command, index),
                  IsTPMSessionError |-> IsTPMSessionError(dec.err, code, command, index),
                  IsTPMWarning |-> IsTPMWarning(dec.err, code, command)]
    /\ UNCHANGED <<regvars, blobvars, pipevars, muvars, authvars>>

ErrNext ==
    \/ ErrDecodeResponseCode
    \/ ErrMatch

SpecErr == ErrInit /\ [][ErrNext]_vars

\* the error decoded for a response code of the client
Decoded(resp) == dec.op = "DecodeResponseCode" /\ dec.resp = resp

\* C22: the literal vectors decode as listed: 00000000 to no error,
\* 00000155 to a TPMError with code sensitive, A5A5057E to a TPMVendorError
\* with code A5A5057E, 00000923 to a TPMWarning with code NVUnavailable,
\* 000005E7 to a TPMParameterError with index 5 and code ECCPoint, 00000B9C
\* to a TPMSessionError with index 3 and code key, 00000496 to a
\* TPMHandleError with index 4 and code symmetric; and only the code 0
\* decodes to no error.
C22_LiteralVectors ==
    dec.op = "DecodeResponseCode" =>
        /\ dec.resp = <<0, 0>> => dec.err = NoError
        /\ dec.resp = <<0, 341>> => dec.err = TPMError(dec.command, ErrorCodes.Sensitive)
        /\ dec.resp = <<42405, 1406>> => dec.err = TPMVendorError(dec.command, <<42405, 1406>>)
        /\ dec.resp = <<0, 2339>> => dec.err = TPMWarning(dec.command, ErrorCodes.NVUnavailable)
        /\ dec.resp = <<0, 1511>> =>
              dec.err = TPMParameterError(dec.command, ErrorCodes.ECCPoint, 5)
        /\ dec.resp = <<0, 2972>> => dec.err = TPMSessionError(dec.command, ErrorCodes.Key, 3)
        /\ dec.resp = <<0, 1174>> =>
              dec.err = TPMHandleError(dec.command, ErrorCodes.Symmetric, 4)
        /\ dec.err = NoError => dec.resp = <<0, 0>>

\* C22, the case: the vendor code A5A5057E was decoded
C22_Witness ==
    /\ Decoded(<<42405, 1406>>)
    /\ dec.err.kind = "TPMVendorError"

\* the arguments of the last match agree with the error on the code and
\* the command, and on the index: each is the sentinel of its axis or the
\* value of the error
MatchesCodeAndCommand(anyCode) ==
    /\ (dec.code = anyCode \/ dec.code = dec.err.Code)
    /\ (dec.command = AnyCommandCode \/ dec.command = dec.err.Command)

MatchesIndex(anyIndex) == dec.index = anyIndex \/ dec.index = dec.err.Index

\* C23: for an error e of the decoder each predicate is true exactly when
\* e is of the predicate's own class and on every axis the argument is the
\* value of e or the sentinel of the axis; IsTPMError is true only for a
\* TPMError that is not wrapped for a handle, a parameter or a session;
\* no error code of the decoder is AnyErrorCode and no warning code is
\* AnyWarningCode.
C23_PredicatesMatchOwnClass ==
    /\ dec.op = "Match" =>
          /\ dec.IsTPMError <=> (dec.err.kind = "TPMError" /\ MatchesCodeAndCommand(AnyErrorCode))
          /\ dec.IsTPMHandleError <=>
                /\ dec.err.kind = "TPMHandleError"
                /\ MatchesCodeAndCommand(AnyErrorCode)
                /\ MatchesIndex(AnyHandleIndex)
          /\ dec.IsTPMParameterError <=>
                /\ dec.err.kind = "TPMParameterError"
                /\ MatchesCodeAndCommand(AnyErrorCode)
                /\ MatchesIndex(AnyParameterIndex)
          /\ dec.IsTPMSessionError <=>
                /\ dec.err.kind = "TPMSessionError"
                /\ MatchesCodeAndCommand(AnyErrorCode)
                /\ MatchesIndex(AnySessionIndex)
          /\ dec.IsTPMWarning <=>
                (dec.err.kind = "TPMWarning" /\ MatchesCodeAndCommand(AnyWarningCode))
    /\ dec.op = "DecodeResponseCode" =>
          /\ dec.err.kind \in {"TPMError", "TPMHandleError", "TPMParameterError", "TPMSessionError"}
                => dec.err.Code # AnyErrorCode
          /\ dec.err.kind = "TPMWarning" => dec.err.Code # AnyWarningCode

\* C23, the case: the code 00000496 was decoded to a TPMHandleError, and
\* IsTPMError with AnyErrorCode and AnyCommandCode is true of it
C23_Case ==
    /\ dec.op = "Match"
    /\ dec.resp = <<0, 1174>>
    /\ dec.err.kind = "TPMHandleError"
    /\ dec.code = AnyErrorCode
    /\ dec.command = AnyCommandCode
    /\ dec.IsTPMError


\* C26: every nonzero response code decodes to one class by priority. With
\* bit 7 clear: bit 8 clear gives a TPM1Error, else bit 10 set a
\* TPMVendorError, else bit 11 set a TPMWarning with the low 7 bits as
\* code, else a TPMError with the low 7 bits as code. With bit 7 set: bit 6
\* set gives a TPMParameterError with the index of bits 8-11, else bit 11
\* set a TPMSessionError with the index of bits 8-10, else a nonzero index
\* in bits 8-10 a TPMHandleError, else a TPMError; the code of each is the
\* low 6 bits plus errorCode1Start and is no format-0 code (0..127).
C26_ClassifiedByPriority ==
    (dec.op = "DecodeResponseCode" /\ dec.resp # <<0, 0>>) =>
        /\ dec.err # NoError
        /\ Bit(dec.resp[2], 7) = 0 =>
              /\ Bit(dec.resp[2], 8) = 0 => dec.err = TPM1Error(dec.command, dec.resp)
              /\ (Bit(dec.resp[2], 8) = 1 /\ Bit(dec.resp[2], 10) = 1) =>
                    dec.err = TPMVendorError(dec.command, dec.resp)
              /\ (Bit(dec.resp[2], 8) = 1 /\ Bit(dec.resp[2], 10) = 0 /\ Bit(dec.resp[2], 11) = 1) =>
                    dec.err = TPMWarning(dec.command, dec.resp[2] % 128)
              /\ (Bit(dec.resp[2], 8) = 1 /\ Bit(dec.resp[2], 10) = 0 /\ Bit(dec.resp[2], 11) = 0) =>
                    dec.err = TPMError(dec.command, dec.resp[2] % 128)
        /\ Bit(dec.resp[2], 7) = 1 =>
              /\ dec.err.Code = (dec.resp[2] % 64) + errorCode1Start
              /\ dec.err.Code \notin 0..127
              /\ Bit(dec.resp[2], 6) = 1 =>
                    /\ dec.err.kind = "TPMParameterError"
                    /\ dec.err.Index = (dec.resp[2] \div 256) % 16
              /\ (Bit(dec.resp[2], 6) = 0 /\ Bit(dec.resp[2], 11) = 1) =>
                    /\ dec.err.kind = "TPMSessionError"
                    /\ dec.err.Index = (dec.resp[2] \div 256) % 8
              /\ (Bit(dec.resp[2], 6) = 0 /\ Bit(dec.resp[2], 11) = 0
                    /\ (dec.resp[2] \div 256) % 8 > 0) =>
                    /\ dec.err.kind = "TPMHandleError"
                    /\ dec.err.Index = (dec.resp[2] \div 256) % 8
              /\ (Bit(dec.resp[2], 6) = 0 /\ Bit(dec.resp[2], 11) = 0
                    /\ (dec.resp[2] \div 256) % 8 = 0) =>
                    dec.err.kind = "TPMError"

\* C26, the case: the code 00000D00, with the vendor bit and the severity
\* bit both set, was decoded to a TPMVendorError
C26_Witness ==
    /\ Decoded(<<0, 3328>>)
    /\ dec.err.kind = "TPMVendorError"


Session(context, authValue) == [Context |-> context, AuthValue |-> authValue]

\* the key of the command and response HMAC of a session that authorizes
\* the entity with the given name: the session key, followed by the
\* authorization value unless the session is bound to that entity
HMACKey(session, entity) ==
    IF session.Context.IsBound /\ session.Context.BoundEntity = entity
    THEN session.Context.SessionKey
    ELSE session.Context.SessionKey \o session.AuthValue

\* what is recorded of a command: the command HMAC was computed and the
\* command dispatched, the session of the authorization was replaced, the
\* response HMAC was verified; a nil session (a plain authorization value)
\* has no HMAC
Step(ev, session, entity) ==
    IF session = Nil THEN [ev |-> ev, hmac |-> FALSE, auth |-> <<>>, key |-> <<>>]
    ELSE [ev |-> ev, hmac |-> TRUE, auth |-> session.AuthValue, key |-> HMACKey(session, entity)]

\* runCommandWithoutProcessingResponse: the command with its HMAC is
\* dispatched; it fails when the transport or the response code does
runCommandWithoutProcessingResponse(session, entity, dispatchOk) ==
    [err |-> IF dispatchOk THEN "" ELSE "TPMError",
     log |-> <<Step("command", session, entity)>>]

\* processResponse with sessionParams[0].session as it is then
processResponse(session, entity) == <<Step("response", session, entity)>>

\* Session.copyWithNewAuthIfRequired: a copy of the session with the new
\* authorization value
copyWithNewAuthIfRequired(session, newAuth) == Session(session.Context, newAuth)

\* what a command that changes an authorization value does after its
\* dispatch: nothing more when it failed, else the session of the
\* authorization, when there is one, is replaced before the response is
\* processed
AfterDispatch(sent, session, replaced, entity) ==
    IF sent.err # "" THEN [err |-> sent.err, log |-> sent.log]
    ELSE IF session # Nil
    THEN [err |-> "",
          log |-> sent.log \o <<Step("replace", replaced, entity)>>
                    \o processResponse(replaced, entity)]
    ELSE [err |-> "", log |-> sent.log \o processResponse(Nil, entity)]

\* a faulty HierarchyChangeAuth that gives the session the new value before
\* the command is dispatched
HierarchyChangeAuthReplacesFirst(session, newAuth, entity, dispatchOk) ==
    IF session = Nil
    THEN AfterDispatch(runCommandWithoutProcessingResponse(Nil, entity, dispatchOk),
                       Nil, Nil, entity)
    ELSE AfterDispatch(runCommandWithoutProcessingResponse(
                           copyWithNewAuthIfRequired(session, newAuth), entity, dispatchOk),
                       session, copyWithNewAuthIfRequired(session, newAuth), entity)

\* TPMContext.Clear up to processResponse: the session gets the empty
\* authorization value
ClearAuth(session, entity, dispatchOk) ==
    AfterDispatch(runCommandWithoutProcessingResponse(session, entity, dispatchOk),
                  session,
                  IF session = Nil THEN Nil ELSE copyWithNewAuthIfRequired(session, <<>>),
                  entity)

\* TPMContext.HierarchyChangeAuth: the session gets newAuth
HierarchyChangeAuth(session, newAuth, entity, dispatchOk) ==
    AfterDispatch(runCommandWithoutProcessingResponse(session, entity, dispatchOk),
                  session,
                  IF session = Nil THEN Nil ELSE copyWithNewAuthIfRequired(session, newAuth),
                  entity)

\* tpmContext.NVChangeAuth: a new Session with the context of the old one
\* and newAuth, whether the session is bound to the index or not
NVChangeAuth(session, newAuth, entity, dispatchOk) ==
    AfterDispatch(runCommandWithoutProcessingResponse(session, entity, dispatchOk),
                  session,
                  IF session = Nil THEN Nil ELSE Session(session.Context, newAuth),
                  entity)

\* the name of the entity a command is authorized with, and another name
EntityName == <<0, 11, 1>>

OtherName == <<0, 11, 2>>

\* the authorization values of the client
ChangeAuthValues == {<<>>, <<1>>, <<2>>}

\* the sessions of the client: an HMAC session with or without a session
\* key, not bound, bound to the entity of the command or bound to another
\* entity, for each authorization value; and none (a plain authorization
\* value)
ChangeAuthSessionList ==
    [i \in 1..19 |->
        IF i = 19 THEN Nil
        ELSE Session([SessionKey |-> << <<>>, <<9>> >>[((i - 1) % 2) + 1],
                      IsBound |-> ((i - 1) \div 2) % 3 # 0,
                      BoundEntity |-> << <<>>, EntityName, OtherName >>[(((i - 1) \div 2) % 3) + 1]],
                     << <<>>, <<1>>, <<2>> >>[((i - 1) \div 6) + 1])]

AuthInit ==
    /\ heap = [i \in CtxIds |-> Nil]
    /\ sessions = [i \in SessIds |-> Nil]
    /\ permanentResources = [h \in PermanentHandles |-> 0]
    /\ wire = Nil
    /\ last = [op |-> "none"]
    /\ ops = 0
    /\ bctx = Nil
    /\ blob = <<>>
    /\ bkind = "none"
    /\ out = NoOut
    /\ tcti = <<>>
    /\ run = Nil
    /\ mu = Nil
    /\ dec = Nil
    /\ chg = [op |-> "none"]

AuthClear ==
    /\ chg.op = "none"
    /\ \E s \in DOMAIN ChangeAuthSessionList, dispatchOk \in BOOLEAN :
          chg' = [op |-> "Clear", session |-> ChangeAuthSessionList[s], newAuth |-> <<>>,
                  dispatchOk |-> dispatchOk,
                  ret |-> ClearAuth(ChangeAuthSessionList[s], EntityName, dispatchOk)]
    /\ UNCHANGED <<regvars, blobvars, pipevars, muvars, errvars>>

AuthHierarchyChangeAuth ==
    /\ chg.op = "none"
    /\ \E s \in DOMAIN ChangeAuthSessionList, newAuth \in ChangeAuthValues, dispatchOk \in BOOLEAN :
          chg' = [op |-> "HierarchyChangeAuth", session |-> ChangeAuthSessionList[s],
                  newAuth |-> newAuth, dispatchOk |-> dispatchOk,
                  ret |-> HierarchyChangeAuth(ChangeAuthSessionList[s], newAuth, EntityName,
                                              dispatchOk)]
    /\ UNCHANGED <<regvars, blobvars, pipevars, muvars, errvars>>

AuthNVChangeAuth ==
    /\ chg.op = "none"
    /\ \E s \in DOMAIN ChangeAuthSessionList, newAuth \in ChangeAuthValues, dispatchOk \in BOOLEAN :
          chg' = [op |-> "NVChangeAuth", session |-> ChangeAuthSessionList[s],
                  newAuth |-> newAuth, dispatchOk |-> dispatchOk,
                  ret |-> NVChangeAuth(ChangeAuthSessionList[s], newAuth, EntityName, dispatchOk)]
    /\ UNCHANGED <<regvars, blobvars, pipevars, muvars, errvars>>

AuthNext ==
    \/ AuthClear
    \/ AuthHierarchyChangeAuth
    \/ AuthNVChangeAuth

SpecAuth == AuthInit /\ [][AuthNext]_vars


\* the authorization value a command leaves its entity with
ValueAfter(op, newAuth) == IF op = "Clear" THEN <<>> ELSE newAuth

\* the session of the last command is bound to the entity of the command
BoundToEntity ==
    /\ chg.session # Nil
    /\ chg.session.Context.IsBound
    /\ chg.session.Context.BoundEntity = EntityName

\* C24: in Clear, HierarchyChangeAuth and NVChangeAuth the command HMAC is
\* computed, first, with the authorization value the session had before
\* the command; when the dispatch fails nothing follows; when it succeeds
\* the session is replaced once, after the dispatch and before the response
\* is processed, by one with the empty value for Clear and the new value
\* for the other two, and the response HMAC is verified with the key of
\* that value; for a session bound to the NV index the key of the response
\* is the key of the command.
C24_AuthReplacedBetweenDispatchAndResponse ==
    chg.op \in {"Clear", "HierarchyChangeAuth", "NVChangeAuth"} =>
        /\ chg.ret.log[1].ev = "command"
        /\ chg.session # Nil =>
              /\ chg.ret.log[1].auth = chg.session.AuthValue
              /\ chg.ret.log[1].key = HMACKey(chg.session, EntityName)
        /\ ~chg.dispatchOk => (chg.ret.err # "" /\ Len(chg.ret.log) = 1)
        /\ (chg.dispatchOk /\ chg.session = Nil) =>
              (Len(chg.ret.log) = 2 /\ chg.ret.log[2].ev = "response" /\ ~chg.ret.log[2].hmac)
        /\ (chg.dispatchOk /\ chg.session # Nil) =>
              /\ Len(chg.ret.log) = 3
              /\ chg.ret.log[2].ev = "replace"
              /\ chg.ret.log[2].auth = ValueAfter(chg.op, chg.newAuth)
              /\ chg.ret.log[3].ev = "response"
              /\ chg.ret.log[3].auth = ValueAfter(chg.op, chg.newAuth)
              /\ ~BoundToEntity =>
                    chg.ret.log[3].key =
                        chg.session.Context.SessionKey \o ValueAfter(chg.op, chg.newAuth)
              /\ (BoundToEntity /\ chg.op = "NVChangeAuth") =>
                    chg.ret.log[3].key = chg.ret.log[1].key

\* C24, the case: HierarchyChangeAuth with a session that is not bound and
\* had the value 01 got the new value 02: the command HMAC has the key of
\* 01, the response HMAC the key of 02
C24_Witness ==
    /\ chg.op = "HierarchyChangeAuth"
    /\ chg.dispatchOk
    /\ chg.session # Nil
    /\ ~chg.session.Context.IsBound
    /\ chg.session.AuthValue = <<1>>
    /\ chg.newAuth = <<2>>
    /\ chg.ret.log[1].key = chg.session.Context.SessionKey \o <<1>>
    /\ chg.ret.log[3].key = chg.session.Context.SessionKey \o <<2>>

\* an NVChangeAuth with a session bound to the index verified the response
\* with the key of the command
C24_BoundCase ==
    /\ chg.op = "NVChangeAuth"
    /\ chg.dispatchOk
    /\ BoundToEntity
    /\ chg.session.AuthValue # chg.newAuth
    /\ chg.ret.log[3].key = chg.ret.log[1].key


\* the context the first read of CreateResourceContextFromTPM makes from
\* the response resp for the handle
FirstReadContext(handle, resp) ==
    IF HandleType(handle) = HandleTypeNVIndex THEN makeNVIndexContext(resp.name, resp.pub)
    ELSE makeObjectContext(handle, resp.name, resp.pub)

\* the response says that the handle refers to nothing: the warning
\* reference-h0 or a handle error with the code handle
SaysUnavailable(resp) ==
    \/ resp.err.kind = "TPMWarning" /\ resp.err.Code = WarningReferenceH0
    \/ resp.err.kind = "TPMHandleError" /\ resp.err.Code = ErrorHandle

\* C25: CreateResourceContextFromTPM without sessions reads the public area
\* once; with sessions it reads it twice unless the first read fails; the
\* first read is made with no session for a dummy context of the handle,
\* the second with the sessions for the context the first read made; a read
\* that fails is the last read and the call fails; a read answered with
\* the warning reference-h0 or with a handle error of code handle makes
\* the call fail with ResourceUnavailableError for the requested handle.
C25_ReadsOnceOrTwice ==
    last.op = "CreateResourceContextFromTPM" =>
        /\ Len(last.log) = last.reads
        /\ Len(last.resps) = last.reads
        /\ last.log[1] = ReadWith(0, makeDummyContext(last.handle))
        /\ last.s = 0 => last.reads = 1
        /\ last.s # 0 => (last.reads = 2 \/ (last.reads = 1 /\ last.err # ""))
        /\ last.reads = 2 =>
              /\ last.log[2].sessions = 1
              /\ last.log[2].rc = FirstReadContext(last.handle, last.resps[1])
        /\ \A i \in 1..last.reads :
              last.resps[i].err # NoError => (i = last.reads /\ last.err # "")
        /\ SaysUnavailable(last.resps[last.reads]) =>
              /\ last.err = "ResourceUnavailableError"
              /\ last.unavailable = last.handle
              /\ last.none

\* C25, the case: called with a session, the public area was read twice,
\* the second time with the session for the NV index context of the first
\* read, and the second read failed
C25_Witness ==
    /\ last.op = "CreateResourceContextFromTPM"
    /\ last.s # 0
    /\ last.reads = 2
    /\ last.log[2].sessions = 1
    /\ last.log[2].rc.Type = handleContextTypeNvIndex
    /\ last.err # ""

\* called without sessions, the one read was answered with reference-h0
\* and the call failed with ResourceUnavailableError
C25_Unavailable ==
    /\ last.op = "CreateResourceContextFromTPM"
    /\ last.s = 0
    /\ last.reads = 1
    /\ last.resps[1].err.kind = "TPMWarning"
    /\ last.err = "ResourceUnavailableError"
    /\ last.unavailable = last.handle


\* C27: unmarshalling a sized structure with size field L (here the first
\* field of a structure, followed by a field of one byte) fails or
\* consumes 2 + L bytes, so that the structure has consumed 2 + L + 1; it
\* fails when the sized structure needs more than L bytes; with L = 0 the
\* sized structure is nil, and the unmarshalling fails when the caller had
\* allocated it.
C27_SizedConsumesDeclaredLength ==
    (mu.op = "UnmarshalFromBytes" /\ mu.kinds = <<"SizedSymDefAndTag">> /\ mu.ret.ok) =>
        /\ mu.ret.n = 2 + UnmarshalU16(mu.b).v + 1
        /\ UnmarshalU16(mu.b).v = 0 => (mu.ret.v[1].Sym = Nil /\ mu.dest.nil)

\* C27, the case: of the bytes 00 03 00 10 07 the sized structure, with
\* size field 3, has taken 00 10, and the third byte of its size, 07, was
\* unmarshalled as the field after it; five bytes were consumed, not six
C27_Case ==
    /\ mu.op = "UnmarshalFromBytes"
    /\ mu.kinds = <<"SizedSymDefAndTag">>
    /\ mu.b = <<0, 3, 0, 16, 7>>
    /\ mu.ret.ok
    /\ mu.ret.n = 5
    /\ mu.ret.v[1].Tag = 7

\* a sized structure of size 0 has failed to unmarshal into a structure
\* the caller had allocated
C27_PreAllocated ==
    /\ mu.op = "UnmarshalFromBytes"
    /\ mu.kinds = <<"SizedSymDefAndTag">>
    /\ mu.b = <<0, 0, 7>>
    /\ ~mu.dest.nil
    /\ ~mu.ret.ok

\* what holds of C27: a sized structure never takes more than the bytes of
\* its size field, and one of size 0 is nil or, allocated by the caller, an
\* error
C27_HoldingParts ==
    (mu.op = "UnmarshalFromBytes" /\ mu.kinds = <<"SizedSymDefAndTag">> /\ mu.ret.ok) =>
        /\ mu.ret.n <= 2 + UnmarshalU16(mu.b).v + 1
        /\ UnmarshalU16(mu.b).v = 0 => (mu.ret.v[1].Sym = Nil /\ mu.dest.nil)

\* a sized structure of size 1 whose body needs two bytes has failed to
\* unmarshal
C27_TooShort ==
    /\ mu.op = "UnmarshalFromBytes"
    /\ mu.kinds = <<"SizedSymDefAndTag">>
    /\ mu.b = <<0, 1, 0, 16, 7>>
    /\ ~mu.ret.ok


\* what a session context shows of the handleContext it wraps: Handle(),
\* Name() and Data()
SessionView(hp, ss, s) ==
    [Handle |-> hp[ss[s].hc].H, Name |-> hp[ss[s].hc].N, Data |-> hp[ss[s].hc].Data]

\* the session contexts that wrap the handleContext of session context s
SharingWith(ss, s) == {w \in DOMAIN ss : ss[w] # Nil /\ ss[w].hc = ss[s].hc}

\* the attributes WithAttrs, IncludeAttrs and ExcludeAttrs give the context
\* they return
DerivedAttrs(op, attrs, given) ==
    IF op = "WithAttrs" THEN given
    ELSE IF op = "IncludeAttrs" THEN attrs \cup given
    ELSE attrs \ given

\* a step of WithAttrs, IncludeAttrs or ExcludeAttrs: the returned context
\* wraps the handleContext of the receiver, has the given set, the union or
\* the difference as attributes, and the receiver is as it was
DerivedStep ==
    (ops' = ops + 1 /\ last'.op \in {"WithAttrs", "IncludeAttrs", "ExcludeAttrs"})
        => /\ sessions[last'.ret] = Nil
           /\ sessions'[last'.ret].hc = sessions[last'.s].hc
           /\ SessionView(heap', sessions', last'.ret) = SessionView(heap, sessions, last'.s)
           /\ sessions'[last'.ret].attrs =
                  DerivedAttrs(last'.op, sessions[last'.s].attrs, last'.attrs)
           /\ sessions'[last'.s] = sessions[last'.s]

\* a session context keeps its handleContext in every step, and its
\* attributes in every step but a SetAttrs on it
WrapperStep ==
    \A s \in SessIds :
        sessions[s] # Nil
            => /\ sessions'[s] # Nil
               /\ sessions'[s].hc = sessions[s].hc
               /\ sessions'[s].attrs # sessions[s].attrs
                      => (last'.op = "SetAttrs" /\ last'.s = s)

\* a command run with a session context: the invalidation, or the nonce of
\* the response, shows through every context that shared the handleContext
\* before the command
SharedStep ==
    (ops' = ops + 1 /\ last'.op = "RunCommand" /\ last'.s # 0 /\ wire' # Nil
        /\ last'.outcome = "success")
        => \A w \in SharingWith(sessions, last'.s) :
               /\ SessionView(heap', sessions', w) = SessionView(heap', sessions', last'.s)
               /\ IF "AttrContinueSession" \in sessions[last'.s].attrs
                  THEN SessionView(heap', sessions', w).Data.NonceTPM = ResponseNonce
                  ELSE SessionView(heap', sessions', w).Handle = HandleUnassigned

\* C29: a session context returned by WithAttrs, IncludeAttrs or
\* ExcludeAttrs shares the handle, name and session data of the context it
\* was derived from, so that an invalidation or a nonce update through one
\* is seen through the other; its attributes are the given set, the union
\* and the difference, and the attributes of the original context change
\* only by SetAttrs
C29_DerivedSessionShares == [][DerivedStep /\ WrapperStep /\ SharedStep]_vars

\* a command was run with a session context that has a different set of
\* attributes than another context of the same session, and the
\* invalidation shows through that other context
C29_Witness ==
    /\ last.op = "RunCommand"
    /\ last.s # 0
    /\ last.outcome = "success"
    /\ \E w \in SharingWith(sessions, last.s) :
           /\ w # last.s
           /\ sessions[w].attrs # sessions[last.s].attrs
           /\ SessionView(heap, sessions, w).Handle = HandleUnassigned

\* a command was run with a derived session context that continues, and the
\* nonce of the response shows through the context it was derived from
C29_NonceCase ==
    /\ last.op = "RunCommand"
    /\ last.s # 0
    /\ \E w \in SharingWith(sessions, last.s) :
           /\ w < last.s
           /\ "AttrContinueSession" \notin sessions[w].attrs
           /\ SessionView(heap, sessions, w).Data # Nil
           /\ SessionView(heap, sessions, w).Data.NonceTPM = ResponseNonce



\* the 16-bit size field at the head of marshalled bytes
SizeField(b) == b[1] * 256 + b[2]

\* C30: marshalling a sized buffer of n bytes, or a sized structure whose
\* body has n bytes, writes the 16-bit size n and then exactly n bytes, and
\* fails when n is larger than 65535 instead of writing n mod 2^16 and n
\* bytes
C30_SizedLengthPrefix ==
    mu.op = "MarshalLong"
        => IF mu.n > 65535 THEN ~mu.ret.ok
           ELSE /\ mu.ret.ok
                /\ SizeField(mu.ret.head) = mu.n
                /\ mu.ret.len = 2 + mu.n

\* a sized buffer of 65536 bytes was marshalled without error, with a size
\* field of 0 before its 65536 bytes
C30_Case ==
    /\ mu.op = "MarshalLong"
    /\ mu.kinds = <<"sized">>
    /\ mu.n = 65536
    /\ mu.ret.ok
    /\ SizeField(mu.ret.head) = 0
    /\ mu.ret.len = 65538

\* the same for a sized structure whose body has 65537 bytes: a size field
\* of 1
C30_StructCase ==
    /\ mu.op = "MarshalLong"
    /\ mu.kinds = <<"sized:Raw">>
    /\ mu.n = 65537
    /\ mu.ret.ok
    /\ SizeField(mu.ret.head) = 1
    /\ mu.ret.len = 65539

\* up to 65535 bytes the size field is the length, and the bytes follow
C30_UpTo65535 ==
    (mu.op = "MarshalLong" /\ mu.n <= 65535)
        => /\ mu.ret.ok
           /\ SizeField(mu.ret.head) = mu.n
           /\ mu.ret.len = 2 + mu.n
           /\ \A i \in 3..5 : mu.ret.head[i] \in {0, 170, 187}

====
